---- MODULE Spec2Model ----
(***************************************************************************)
(* Model of the multi-threaded directory-jail TCP server (src/src/server.c)*)
(* and of the helpers it uses.  Strings are sequences of one-character     *)
(* strings, so that prefix tests, separators and line terminators are      *)
(* computed the way the C code computes them.                              *)
(***************************************************************************)
EXTENDS Integers, Sequences, FiniteSets, TLC

\* ------------------------------------------------------------------------
\* Bounds of the model and constants of the program
\* ------------------------------------------------------------------------

\* number of client connections the listener may accept in one run
MaxClients == 2

\* the lines of a script file
MaxScriptLen == 2

\* the results of recv or send that one call of recv_line or send_all sees
MaxEvents == 3

\* the size of the buffer handed to recv_line (MAX_BUFFER_SIZE, scaled down)
MaxLineBuf == 3

\* the bytes handed to send_all
MaxSendLen == 3

\* the components of the longest path the jail tests are compared on
MaxDepth == 2

\* protocol.h
MAX_BUFFER_SIZE == 4096
MAX_PATH_LEN == 4096
\* server.c
NAME_MAX == 255

\* ------------------------------------------------------------------------
\* C string helpers
\* ------------------------------------------------------------------------

Min(a, b) == IF a < b THEN a ELSE b

\* the first n characters of s (all of s when it is shorter)
Take(s, n) == SubSeq(s, 1, Min(n, Len(s)))

\* s with its first n characters removed
Drop(s, n) == SubSeq(s, n + 1, Len(s))

\* strncmp(a, b, n) == 0
StrncmpEq(a, b, n) == Take(a, n) = Take(b, n)

\* the character s[i] of a C string, "\0" at (and, here, past) the terminator
CharAt(s, i) == IF i >= 1 /\ i <= Len(s) THEN s[i] ELSE "\\0"

\* the value a function returning char* yields on failure
NULL == <<"NULL">>

NL == <<"\n">>

\* protocol.h: command strings and responses
CMD_ECHO == <<"E", "C", "H", "O">>
CMD_QUIT == <<"Q", "U", "I", "T">>
CMD_INFO == <<"I", "N", "F", "O">>
CMD_CD == <<"C", "D">>
CMD_LIST == <<"L", "I", "S", "T">>
RESP_BYE == <<"B", "Y", "E">>
RESP_ERROR_PREFIX == <<"E", "R", "R", "O", "R", ":", " ">>
SERVER_DEFAULT_WELCOME_MSG ==
    <<"W", "e", "l", "c", "o", "m", "e", " ", "t", "o", " ", "t", "h",
    "e", " ", "t", "e", "s", "t", " ", "s", "e", "r", "v", "e", "r", " ",
    "'", "m", "y", "s", "e", "r", "v", "e", "r", "'">>

\* ------------------------------------------------------------------------
\* The filesystem the server runs on (the environment of realpath, stat,
\* lstat, readlink and readdir).  A node is named by its canonical path, a
\* sequence of components; a component is a string.
\*
\*   /            directory
\*   /j           directory   (a possible server root)
\*   /j/s         directory
\*   /j/s/t       directory
\*   /j/f         regular file
\*   /j/k -> s            symlink to a directory inside /j
\*   /j/m -> k            symlink to a symlink (chained)
\*   /j/l -> ../o         symlink to a directory outside /j
\*   /j/d -> x            dangling symlink
\*   /j2          directory   (a sibling whose name starts with "j")
\*   /o           directory
\* ------------------------------------------------------------------------

n_j == <<"j">>
n_j2 == <<"j", "2">>
n_s == <<"s">>
n_t == <<"t">>
n_f == <<"f">>
n_k == <<"k">>
n_m == <<"m">>
n_l == <<"l">>
n_d == <<"d">>
n_a == <<"a">>
n_r == <<"r">>
n_o == <<"o">>
n_x == <<"x">>
DOT == <<".">>
DOTDOT == <<".", ".">>
SLASH == <<"/">>

Dir == [kind |-> "dir", target |-> <<>>]
File == [kind |-> "file", target |-> <<>>]
Link(t) == [kind |-> "link", target |-> t]
NoNode == [kind |-> "none", target |-> <<>>]

\* lstat: the node at a canonical path
FsNode(p) ==
    CASE p = <<>> -> Dir
      [] p = <<n_j>> -> Dir
      [] p = <<n_j, n_s>> -> Dir
      [] p = <<n_j, n_s, n_t>> -> Dir
      [] p = <<n_j, n_f>> -> File
      [] p = <<n_j, n_k>> -> Link(n_s)
      [] p = <<n_j, n_m>> -> Link(n_k)
      [] p = <<n_j, n_l>> -> Link(DOTDOT \o SLASH \o n_o)
      [] p = <<n_j, n_d>> -> Link(n_x)
      [] p = <<n_j, n_a>> -> Link(SLASH \o n_o)
      [] p = <<n_j, n_s, n_r>> -> Link(DOTDOT)
      [] p = <<n_j2>> -> Dir
      [] p = <<n_o>> -> Dir
      [] OTHER -> NoNode

\* readdir: the names in a directory, in the order the directory yields them
DirNames(p) ==
    CASE p = <<>> -> <<DOT, DOTDOT, n_j, n_j2, n_o>>
      [] p = <<n_j>> -> <<DOT, DOTDOT, n_s, n_f, n_k, n_m, n_l, n_d, n_a>>
      [] p = <<n_j, n_s>> -> <<DOT, DOTDOT, n_t, n_r>>
      [] OTHER -> <<DOT, DOTDOT>>

\* the components of a path string: the text between separators
RECURSIVE SplitFrom(_, _, _)
SplitFrom(s, i, cur) ==
    IF i > Len(s) THEN <<cur>>
    ELSE IF s[i] = "/" THEN <<cur>> \o SplitFrom(s, i + 1, <<>>)
    ELSE SplitFrom(s, i + 1, Append(cur, s[i]))

Split(s) == SplitFrom(s, 1, <<>>)

\* the path string of a canonical path
RECURSIVE JoinFrom(_, _)
JoinFrom(comps, i) ==
    IF i > Len(comps) THEN <<>>
    ELSE SLASH \o comps[i] \o JoinFrom(comps, i + 1)

Join(comps) == IF comps = <<>> THEN SLASH ELSE JoinFrom(comps, 1)

Parent(comps) == IF comps = <<>> THEN <<>> ELSE SubSeq(comps, 1, Len(comps) - 1)

\* Path resolution from directory cur over the remaining components rest:
\* empty and "." components are skipped, ".." goes to the parent, a symlink
\* is replaced by its target.  (The filesystem above has no symlink cycle.)
RECURSIVE Walk(_, _)
Walk(cur, rest) ==
    IF rest = <<>> THEN [ok |-> TRUE, comps |-> cur]
    ELSE LET c == Head(rest)
             r == Tail(rest)
             nxt == Append(cur, c)
             n == FsNode(nxt)
         IN  IF FsNode(cur).kind # "dir" THEN [ok |-> FALSE, comps |-> <<>>]
             ELSE IF c = <<>> \/ c = DOT THEN Walk(cur, r)
             ELSE IF c = DOTDOT THEN Walk(Parent(cur), r)
             ELSE CASE n.kind = "none" -> [ok |-> FALSE, comps |-> <<>>]
                    [] n.kind = "link" ->
                        Walk(IF CharAt(n.target, 1) = "/" THEN <<>> ELSE cur,
                             Split(n.target) \o r)
                    [] OTHER -> Walk(nxt, r)

\* realpath(path, resolved): the canonical absolute path, or NULL
Realpath(path) ==
    LET w == Walk(<<>>, Split(path))
    IN  IF path # <<>> /\ w.ok THEN Join(w.comps) ELSE NULL

\* stat(path) succeeds and S_ISDIR, for a canonical path string
IsDirectory(path) == FsNode(SelectSeq(Split(path), LAMBDA c : c # <<>>)).kind = "dir"

\* ------------------------------------------------------------------------
\* server.c: get_relative_path and handle_cd
\* ------------------------------------------------------------------------

\* faulty variant: the prefix is compared and the separator after it is not
GetRelativePathPrefixOnly(abs_path, root_path, buf_len) ==
    LET root_len == Len(root_path)
        path_after_root == IF root_path = SLASH THEN abs_path
                           ELSE Drop(abs_path, root_len)
    IN  IF buf_len = 0 THEN NULL
        ELSE IF ~StrncmpEq(abs_path, root_path, root_len) THEN NULL
        ELSE IF Len(abs_path) = root_len
            THEN (IF buf_len < 2 THEN NULL ELSE SLASH)
        ELSE IF Len(path_after_root) + 1 > buf_len THEN NULL
        ELSE IF path_after_root[1] # "/"
            THEN (IF Len(path_after_root) + 2 > buf_len THEN NULL
                  ELSE SLASH \o path_after_root)
        ELSE path_after_root

\* get_relative_path(abs_path, root_path, rel_path_buf, buf_len): abs_path
\* with the root prefix stripped, starting with "/", or NULL
GetRelativePath(abs_path, root_path, buf_len) ==
    LET root_len == Len(root_path)
        path_after_root == IF root_path = SLASH THEN abs_path
                           ELSE Drop(abs_path, root_len)
    IN  IF buf_len = 0 THEN NULL
        ELSE IF ~StrncmpEq(abs_path, root_path, root_len) THEN NULL
        ELSE IF Len(abs_path) = root_len
            THEN (IF buf_len < 2 THEN NULL ELSE SLASH)
        ELSE IF CharAt(abs_path, root_len + 1) # "/" /\ root_path # SLASH THEN NULL
        ELSE IF Len(path_after_root) + 1 > buf_len THEN NULL
        ELSE IF path_after_root = <<>>
            THEN (IF buf_len < 2 THEN NULL ELSE SLASH)
        ELSE IF path_after_root[1] # "/"
            THEN (IF Len(path_after_root) + 2 > buf_len THEN NULL
                  ELSE SLASH \o path_after_root)
        ELSE path_after_root

\* faulty variant: a root-relative argument is appended to the working
\* directory instead of the root
TargetPathTrialFromCwd(server_root_abs, current_wd_abs, path_arg) ==
    IF Len(current_wd_abs) + 1 + Len(path_arg) + 1 > MAX_PATH_LEN THEN NULL
    ELSE IF current_wd_abs # SLASH /\ current_wd_abs[Len(current_wd_abs)] # "/"
         THEN current_wd_abs \o SLASH \o path_arg
         ELSE current_wd_abs \o path_arg

\* handle_cd, lines 419-471: the trial path built from the argument, or NULL
\* where the function returns because the path would not fit its buffer
TargetPathTrial(server_root_abs, current_wd_abs, path_arg) ==
    LET len_current_root == Len(server_root_abs)
        len_cwd == Len(current_wd_abs)
        len_arg == Len(path_arg)
    IN  IF path_arg[1] = "/"
        THEN IF server_root_abs = SLASH
             THEN (IF len_arg + 1 > MAX_PATH_LEN THEN NULL ELSE path_arg)
             ELSE IF path_arg = SLASH
             THEN (IF len_current_root + 1 > MAX_PATH_LEN THEN NULL
                   ELSE server_root_abs)
             ELSE (IF len_current_root + len_arg + 1 > MAX_PATH_LEN THEN NULL
                   ELSE server_root_abs \o path_arg)
        ELSE IF len_cwd + 1 + len_arg + 1 > MAX_PATH_LEN THEN NULL
        ELSE IF current_wd_abs # SLASH
                /\ len_cwd > 0 /\ current_wd_abs[len_cwd] # "/"
             THEN current_wd_abs \o SLASH \o path_arg
             ELSE current_wd_abs \o path_arg

\* faulty variant: the prefix is compared and the separator after it is not
CdContainedPrefixOnly(resolved_path, server_root_abs) ==
    /\ Len(resolved_path) >= Len(server_root_abs)
    /\ StrncmpEq(resolved_path, server_root_abs, Len(server_root_abs))

\* handle_cd, lines 480-484: the resolved path passes the jail test
CdContained(resolved_path, server_root_abs) ==
    LET len_current_root == Len(server_root_abs)
        resolved_len == Len(resolved_path)
    IN  /\ ~(resolved_len < len_current_root
             \/ ~StrncmpEq(resolved_path, server_root_abs, len_current_root))
        /\ ~(/\ resolved_len > len_current_root
             /\ resolved_path[len_current_root + 1] # "/"
             /\ server_root_abs # SLASH)

\* faulty variant: the leading separator is stripped from every relative
\* path, the root's included
CdReplyStripSlash(current_wd_abs, server_root_abs, response_max_len) ==
    LET rel == GetRelativePath(current_wd_abs, server_root_abs, MAX_PATH_LEN)
    IN  IF rel = NULL \/ response_max_len < 2 THEN <<>>
        ELSE Take(Drop(rel, 1), response_max_len - 2) \o NL

\* handle_cd, lines 489-507: the reply for the new working directory
CdReply(current_wd_abs, server_root_abs, response_max_len) ==
    LET rel == GetRelativePath(current_wd_abs, server_root_abs, MAX_PATH_LEN)
        display_path == IF rel = SLASH THEN SLASH
                        ELSE IF rel[1] = "/" /\ Len(rel) > 1
                            THEN Take(Drop(rel, 1), MAX_PATH_LEN - 1)
                        ELSE Take(rel, MAX_PATH_LEN - 1)
    IN  IF rel = NULL THEN <<>>
        ELSE IF Len(display_path) + 2 <= response_max_len
            THEN display_path \o NL
        ELSE IF response_max_len >= 2
            THEN Take(display_path, response_max_len - 2) \o NL
        ELSE <<>>

\* faulty variant: the working directory is overwritten as soon as the path
\* resolves, before the directory and jail tests
HandleCdAssignFirst(server_root_abs, current_wd_abs, path_arg, response_max_len) ==
    LET unchanged == [cwd |-> current_wd_abs, response |-> <<>>]
        target_path_trial ==
            TargetPathTrial(server_root_abs, current_wd_abs, path_arg)
        resolved_path == Realpath(target_path_trial)
        new_wd == Take(resolved_path, MAX_PATH_LEN - 1)
    IN  IF response_max_len = 0 THEN unchanged
        ELSE IF Len(path_arg) = 0 THEN unchanged
        ELSE IF target_path_trial = NULL THEN unchanged
        ELSE IF resolved_path = NULL THEN unchanged
        ELSE IF ~IsDirectory(resolved_path) THEN [unchanged EXCEPT !.cwd = new_wd]
        ELSE IF ~CdContained(resolved_path, server_root_abs)
            THEN [unchanged EXCEPT !.cwd = new_wd]
        ELSE [cwd |-> new_wd,
              response |-> CdReply(new_wd, server_root_abs, response_max_len)]

\* handle_cd(data, path_arg, response_buffer, response_max_len): the working
\* directory and the response buffer it leaves
HandleCd(server_root_abs, current_wd_abs, path_arg, response_max_len) ==
    LET unchanged == [cwd |-> current_wd_abs, response |-> <<>>]
        target_path_trial ==
            TargetPathTrial(server_root_abs, current_wd_abs, path_arg)
        resolved_path == Realpath(target_path_trial)
        new_wd == Take(resolved_path, MAX_PATH_LEN - 1)
    IN  IF response_max_len = 0 THEN unchanged
        ELSE IF Len(path_arg) = 0 THEN unchanged
        ELSE IF target_path_trial = NULL THEN unchanged
        ELSE IF resolved_path = NULL THEN unchanged
        ELSE IF ~IsDirectory(resolved_path) THEN unchanged
        ELSE IF ~CdContained(resolved_path, server_root_abs) THEN unchanged
        ELSE [cwd |-> new_wd,
              response |-> CdReply(new_wd, server_root_abs, response_max_len)]

\* ------------------------------------------------------------------------
\* server.c: command parsing in client_handler_thread
\* ------------------------------------------------------------------------

IsSpace(ch) == ch \in {" ", "\t", "\n", "\r"}

\* the least of a non-empty set of positions
Least(positions) == CHOOSE k \in positions : \A m \in positions : k <= m

\* strcspn(s, "\r\n"), as a count of characters
StrcspnCRLF(s) ==
    LET stops == {k \in 1 .. Len(s) : s[k] \in {"\r", "\n"}}
    IN  IF stops = {} THEN Len(s) ELSE Least(stops) - 1

\* buffer[strcspn(buffer, "\r\n")] = 0
StripEol(s) == Take(s, StrcspnCRLF(s))

\* s without its leading whitespace
SkipSpace(s) ==
    LET kept == {k \in 1 .. Len(s) : ~IsSpace(s[k])}
    IN  IF kept = {} THEN <<>> ELSE SubSeq(s, Least(kept), Len(s))

\* the length of the leading run of non-whitespace characters
TokenLen(s) ==
    LET stops == {k \in 1 .. Len(s) : IsSpace(s[k])}
    IN  IF stops = {} THEN Len(s) ELSE Least(stops) - 1

\* faulty variant: the argument is read as a second whitespace-delimited
\* token
SscanfArgToken(buffer) ==
    LET s1 == SkipSpace(buffer)
        n == TokenLen(s1)
        s2 == SkipSpace(Drop(s1, n))
    IN  [command |-> Take(s1, n), cmd_arg |-> Take(s2, TokenLen(s2))]

\* sscanf(buffer, "%s %[^\n]", command, cmd_arg) into zeroed buffers
Sscanf(buffer) ==
    LET s1 == SkipSpace(buffer)
        n == TokenLen(s1)
        s2 == SkipSpace(Drop(s1, n))
    IN  [command |-> Take(s1, n), cmd_arg |-> Take(s2, StrcspnCRLF(s2))]

\* protocol.h lines 14-15: the sizes of command[] and cmd_arg[] (server.c
\* lines 292-293)
MAX_CMD_LEN == 256
MAX_ARGS_LEN == MAX_BUFFER_SIZE - MAX_CMD_LEN - 5

\* line 297: the bytes sscanf stores through command and through cmd_arg,
\* terminators included; a conversion that matches nothing stores nothing.
\* "%s" and "%[^\n]" carry no field width.
SscanfWrites(buffer) ==
    LET p == Sscanf(buffer)
    IN  [command |-> IF p.command = <<>> THEN 0 ELSE Len(p.command) + 1,
         cmd_arg |-> IF p.cmd_arg = <<>> THEN 0 ELSE Len(p.cmd_arg) + 1]

\* ------------------------------------------------------------------------
\* server.c: format_list_item and the line handle_list sends for an entry
\* ------------------------------------------------------------------------

\* lstat(path) of an absolute path string: every component but the last is
\* resolved, the last one is not followed
Lstat(path) ==
    LET cs == SelectSeq(Split(path), LAMBDA c : c # <<>>)
        last == cs[Len(cs)]
        w == Walk(<<>>, IF last \in {DOT, DOTDOT} THEN cs
                        ELSE SubSeq(cs, 1, Len(cs) - 1))
    IN  IF cs = <<>> THEN Dir
        ELSE IF ~w.ok THEN NoNode
        ELSE IF last \in {DOT, DOTDOT} THEN FsNode(w.comps)
        ELSE IF FsNode(w.comps).kind # "dir" THEN NoNode
        ELSE FsNode(Append(w.comps, last))

\* format_list_item(buffer, buf_size, name, middle, target, suffix); NULL
\* stands for a null middle or target
FormatListItem(buf_size, name, middle, target, suffix) ==
    LET truncated_name == Take(name, NAME_MAX)
        actual_middle == IF middle = NULL THEN <<>> ELSE middle
        actual_target == IF target = NULL THEN <<>> ELSE target
        both == middle # NULL /\ target # NULL
        b1 == truncated_name
        fits_middle == Len(b1) + Len(actual_middle) < buf_size
        b2 == IF both /\ fits_middle THEN b1 \o actual_middle ELSE b1
        space_for_target ==
            IF buf_size > Len(b2) + Len(suffix) + 1
            THEN buf_size - Len(b2) - Len(suffix) - 1 ELSE 0
        b3 == IF both /\ fits_middle
              THEN (IF Len(actual_target) <= space_for_target
                    THEN b2 \o actual_target
                    ELSE b2 \o Take(actual_target, space_for_target))
              ELSE b2
        b4 == IF Len(b3) + Len(suffix) < buf_size THEN b3 \o suffix ELSE b3
    IN  IF buf_size = 0 THEN <<>>
        ELSE IF ~(Len(truncated_name) < buf_size) THEN <<>>
        ELSE Take(b4, buf_size - 1)

ARROW_PLAIN == <<" ", "-", ">", " ">>
ARROW_ONE == <<" ", "-", "-", ">", " ">>
ARROW_CHAIN == <<" ", "-", "-", ">", ">", " ">>
SUFFIX_DIR == <<"/", "\n">>
SUFFIX_EXTERNAL ==
    <<" ", "[", "u", "n", "r", "e", "s", "o", "l", "v", "e", "d", "/",
      "e", "x", "t", "e", "r", "n", "a", "l", "]", "\n">>
SUFFIX_BROKEN ==
    <<" ", "[", "b", "r", "o", "k", "e", "n", " ", "l", "i", "n", "k", "]", "\n">>
SUFFIX_TOO_LONG ==
    <<" ", "[", "p", "a", "t", "h", " ", "t", "o", "o", " ", "l", "o", "n", "g",
      " ", "t", "o", " ", "s", "t", "a", "t", "]", "\n">>
SUFFIX_RESOLVED_TOO_LONG ==
    <<" ", "[", "r", "e", "s", "o", "l", "v", "e", "d", " ", "p", "a", "t", "h",
      " ", "t", "o", "o", " ", "l", "o", "n", "g", "]", "\n">>

\* handle_list, lines 634-638
ItemPathAbs(current_wd_abs, d_name) ==
    IF current_wd_abs = SLASH THEN SLASH \o d_name
    ELSE current_wd_abs \o SLASH \o d_name

\* dirname(path) of an absolute path string without a trailing separator
RECURSIVE Dirname(_)
Dirname(path) ==
    IF Len(path) <= 1 THEN SLASH
    ELSE IF path[Len(path)] = "/"
        THEN (IF Len(path) = 2 THEN SLASH ELSE Take(path, Len(path) - 1))
    ELSE Dirname(Take(path, Len(path) - 1))

\* handle_list, lines 658-685: the absolute path of a link's direct target
FirstTargetAbsPath(item_path_abs, target_buf) ==
    LET link_dir == Dirname(item_path_abs)
        base == IF link_dir # SLASH /\ link_dir[Len(link_dir)] # "/"
                THEN link_dir \o SLASH ELSE link_dir
    IN  IF CharAt(target_buf, 1) = "/" THEN Take(target_buf, MAX_PATH_LEN - 1)
        ELSE IF base[Len(base)] = "/" /\ CharAt(target_buf, 1) = "/"
            THEN (IF Len(target_buf) > 1 THEN base \o Drop(target_buf, 1) ELSE base)
        ELSE base \o target_buf

\* faulty variant: a resolved target is shown with the one-hop arrow whether
\* or not the link's direct target is a symlink
ListSymlinkLineOneArrow(server_root_abs, item_path_abs, d_name, target_buf, readlink_ok) ==
    LET first_target_abs_path == FirstTargetAbsPath(item_path_abs, target_buf)
        ultimate_resolved_path_abs == Realpath(first_target_abs_path)
        display_target_rel ==
            IF ultimate_resolved_path_abs = NULL THEN NULL
            ELSE GetRelativePath(ultimate_resolved_path_abs, server_root_abs,
                                 MAX_PATH_LEN)
    IN  IF ~readlink_ok
        THEN FormatListItem(MAX_BUFFER_SIZE, d_name, ARROW_PLAIN, NULL, SUFFIX_BROKEN)
        ELSE IF display_target_rel # NULL
        THEN FormatListItem(MAX_BUFFER_SIZE, d_name, ARROW_ONE,
                            display_target_rel, NL)
        ELSE FormatListItem(MAX_BUFFER_SIZE, d_name, ARROW_PLAIN, target_buf,
                            SUFFIX_EXTERNAL)

\* handle_list, lines 649-700: the line for a symlink entry; readlink_ok is
\* the outcome of readlink on the entry
ListSymlinkLine(server_root_abs, item_path_abs, d_name, target_buf, readlink_ok) ==
    LET first_target_abs_path == FirstTargetAbsPath(item_path_abs, target_buf)
        is_intermediate_link == Lstat(first_target_abs_path).kind = "link"
        ultimate_resolved_path_abs == Realpath(first_target_abs_path)
        display_target_rel ==
            IF ultimate_resolved_path_abs = NULL THEN NULL
            ELSE GetRelativePath(ultimate_resolved_path_abs, server_root_abs,
                                 MAX_PATH_LEN)
    IN  IF ~readlink_ok
        THEN FormatListItem(MAX_BUFFER_SIZE, d_name, ARROW_PLAIN, NULL, SUFFIX_BROKEN)
        ELSE IF CharAt(target_buf, 1) # "/"
                /\ Len(Dirname(item_path_abs)) + 1 + Len(target_buf) + 1 > MAX_PATH_LEN
        THEN FormatListItem(MAX_BUFFER_SIZE, d_name, ARROW_PLAIN, target_buf,
                            SUFFIX_RESOLVED_TOO_LONG)
        ELSE IF display_target_rel # NULL
        THEN FormatListItem(MAX_BUFFER_SIZE, d_name,
                            IF is_intermediate_link THEN ARROW_CHAIN ELSE ARROW_ONE,
                            display_target_rel, NL)
        ELSE FormatListItem(MAX_BUFFER_SIZE, d_name, ARROW_PLAIN, target_buf,
                            SUFFIX_EXTERNAL)

\* faulty variant: a symlink whose target does not resolve inside the root
\* is left out of the listing
ListItemLineSkipExternal(server_root_abs, current_wd_abs, d_name, readlink_ok) ==
    LET item_path_abs == ItemPathAbs(current_wd_abs, d_name)
        st == Lstat(item_path_abs)
        resolved == Realpath(item_path_abs)
    IN  IF st.kind = "none" THEN <<>>
        ELSE IF st.kind = "dir"
        THEN FormatListItem(MAX_BUFFER_SIZE, d_name, NULL, NULL, SUFFIX_DIR)
        ELSE IF st.kind = "link"
        THEN (IF readlink_ok
                 /\ (resolved = NULL
                     \/ GetRelativePath(resolved, server_root_abs, MAX_PATH_LEN) = NULL)
              THEN <<>>
              ELSE ListSymlinkLine(server_root_abs, item_path_abs, d_name,
                                   st.target, readlink_ok))
        ELSE FormatListItem(MAX_BUFFER_SIZE, d_name, NULL, NULL, NL)

\* handle_list, lines 622-703: the response line for one directory entry
\* (<<>> when the entry is skipped because lstat fails)
ListItemLine(server_root_abs, current_wd_abs, d_name, readlink_ok) ==
    LET item_path_abs == ItemPathAbs(current_wd_abs, d_name)
        required_len == IF current_wd_abs = SLASH THEN 1 + Len(d_name) + 1
                        ELSE Len(current_wd_abs) + 1 + Len(d_name) + 1
        st == Lstat(item_path_abs)
    IN  IF required_len > MAX_PATH_LEN
        THEN FormatListItem(MAX_BUFFER_SIZE, d_name, NULL, NULL, SUFFIX_TOO_LONG)
        ELSE IF st.kind = "none" THEN <<>>
        ELSE IF st.kind = "dir"
        THEN FormatListItem(MAX_BUFFER_SIZE, d_name, NULL, NULL, SUFFIX_DIR)
        ELSE IF st.kind = "link"
        THEN ListSymlinkLine(server_root_abs, item_path_abs, d_name, st.target,
                             readlink_ok)
        ELSE FormatListItem(MAX_BUFFER_SIZE, d_name, NULL, NULL, NL)

\* strerror(errno) for the errors opendir and readdir may report
STRERROR_EACCES == <<"P", "e", "r", "m", "i", "s", "s", "i", "o", "n", " ", "d", "e", "n", "i", "e", "d">>
STRERROR_EMFILE == <<"T", "o", "o", " ", "m", "a", "n", "y", " ", "o", "p", "e", "n", " ", "f", "i", "l", "e", "s">>
STRERROR_EIO == <<"I", "n", "p", "u", "t", "/", "o", "u", "t", "p", "u", "t", " ", "e", "r", "r", "o", "r">>
OpendirErrors == {STRERROR_EACCES, STRERROR_EMFILE}
ReaddirErrors == {STRERROR_EIO}

LIST_CANNOT_OPEN == <<"L", "I", "S", "T", ":", " ", "C", "a", "n", "n", "o", "t", " ", "o", "p", "e", "n", " ", "d", "i", "r", "e", "c", "t", "o", "r", "y", " ">>
LIST_ERROR_READING == <<"L", "I", "S", "T", ":", " ", "E", "r", "r", "o", "r", " ", "r", "e", "a", "d", "i", "n", "g", " ", "d", "i", "r", "e", "c", "t", "o", "r", "y", " ", "c", "o", "n", "t", "e", "n", "t", "s", ":", " ">>
COLON_SP == <<":", " ">>

\* handle_list, lines 585-594: the line for a directory opendir cannot open
ListOpenErrorLine(current_wd_abs, err_msg) ==
    LET err_msg_strerror == Take(err_msg, 127)
        fixed_len_err == Len(RESP_ERROR_PREFIX) + Len(LIST_CANNOT_OPEN)
                         + Len(COLON_SP) + Len(NL) + 1
        max_len_for_cwd_err ==
            IF MAX_BUFFER_SIZE > fixed_len_err + Len(err_msg_strerror)
            THEN MAX_BUFFER_SIZE - (fixed_len_err + Len(err_msg_strerror))
            ELSE 0
    IN  Take(RESP_ERROR_PREFIX \o LIST_CANNOT_OPEN
             \o Take(current_wd_abs, max_len_for_cwd_err)
             \o COLON_SP \o err_msg_strerror \o NL,
             MAX_BUFFER_SIZE - 1)

\* handle_list, lines 606-613: the line for a readdir that fails (<<>> where
\* it would not fit the buffer and nothing is sent)
ListReadErrorLine(err_msg) ==
    LET err_msg_readdir == Take(err_msg, 127)
        err_prefix_len == Len(RESP_ERROR_PREFIX) + Len(LIST_ERROR_READING)
                          + Len(NL) + 1
    IN  IF MAX_BUFFER_SIZE > err_prefix_len + Len(err_msg_readdir)
        THEN RESP_ERROR_PREFIX \o LIST_ERROR_READING \o err_msg_readdir \o NL
        ELSE <<>>

\* ------------------------------------------------------------------------
\* The clients: the lines a client may send
\* ------------------------------------------------------------------------

SP == <<" ">>

CdArgs ==
    { SLASH, DOTDOT, n_s, n_t, n_k, n_l, n_f, n_x,
      DOTDOT \o SLASH \o n_j2,
      DOTDOT \o SLASH \o DOTDOT,
      SLASH \o n_s \o SLASH \o n_t,
      SLASH \o DOTDOT \o SLASH \o n_o }

\* the name of a script file, as a client writes it after '@'
SCRIPT_NAME == <<"a", ".", "t", "x", "t">>

ClientLines ==
    { CMD_CD \o SP \o a \o NL : a \in CdArgs }
    \cup { CMD_CD \o NL,
           CMD_ECHO \o SP \o <<"h", "i", " ", "y", "o">> \o NL,
           CMD_ECHO \o SP \o SP \o <<"h", "i", " ", " ", "y", "o", " ">> \o NL,
           CMD_ECHO \o NL,
           CMD_INFO \o NL,
           CMD_LIST \o NL,
           CMD_QUIT \o NL,
           <<"F", "O", "O">> \o SP \o n_x \o <<"\r", "\n">>,
           <<"@">> \o SCRIPT_NAME \o NL,
           SP \o <<"@">> \o SP \o SCRIPT_NAME \o NL,
           SP \o NL,
           NL }

\* The runs explored: one client that may send any of ClientLines, or
\* MaxClients clients at once that send the lines of ConcurrentLines.
ConcurrentLines ==
    { CMD_CD \o SP \o a \o NL : a \in {n_s, DOTDOT, n_l} }
    \cup { CMD_ECHO \o SP \o <<"h", "i", " ", "y", "o">> \o NL,
           CMD_QUIT \o NL }

\* the lines a client may send while the server is being shut down
ShutdownLines ==
    { CMD_ECHO \o SP \o <<"h", "i">> \o SP \o <<"y", "o">> \o NL,
      CMD_LIST \o NL,
      CMD_QUIT \o NL }

\* the lines a client may send while opendir, readdir and readlink may fail
ListLines ==
    { CMD_CD \o SP \o a \o NL : a \in {n_s, n_l, n_d, n_a} }
    \cup { CMD_LIST \o NL,
           CMD_ECHO \o SP \o <<"h", "i">> \o NL,
           CMD_QUIT \o NL }

\* the lines of a script file, and the files a client may run
ScriptLines ==
    { <<"@">> \o SCRIPT_NAME \o NL,
      CMD_ECHO \o SP \o <<"h", "i">> \o NL,
      CMD_LIST \o NL,
      CMD_QUIT \o NL,
      NL }

Scripts == UNION { [1 .. n -> ScriptLines] : n \in 1 .. MaxScriptLen }

\* the lines recv_line may return next: in a script run, the first of
\* those the client has sent and the server has not read yet
LinesSent(l, sent) ==
    IF l = "single" THEN ClientLines
    ELSE IF l = "concurrent" THEN ConcurrentLines
    ELSE IF l = "shutdown" THEN ShutdownLines
    ELSE IF l = "list" THEN ListLines
    ELSE IF sent = <<>> THEN {}
    ELSE {Head(sent)}

\* the roots the server may be started with (argv[2] after realpath)
ServerRoots == { SLASH \o n_j, SLASH \o n_j \o SLASH \o n_s }

\* ------------------------------------------------------------------------
\* common.c: the line transport
\* ------------------------------------------------------------------------

\* what one call of recv(sockfd, &ch, 1, 0) may return: a byte, 0 ("EOF"),
\* or -1 with errno EINTR, EAGAIN/EWOULDBLOCK or another error
RecvBytes == {"a", "\n"}
RecvEvents == RecvBytes \cup {"EOF", "EINTR", "EAGAIN", "ECONNRESET"}

\* the call has not returned: it waits in recv
Blocked(buf, n) ==
    [returned |-> FALSE, ret |-> 0, buffer |-> buf, terminated |-> FALSE,
     consumed |-> n]

\* faulty variant: a timeout is reported as a timeout whatever has been
\* collected
RECURSIVE RecvLoopTimeoutAlways(_, _, _)
RecvLoopTimeoutAlways(events, max_len, buf) ==
    LET current_len == Len(buf)
        return == [returned |-> TRUE, ret |-> current_len, buffer |-> buf,
                   terminated |-> TRUE, consumed |-> current_len]
    IN  IF ~(current_len < max_len - 1) THEN return
        ELSE IF events = <<>> THEN Blocked(buf, current_len)
        ELSE LET ch == Head(events)
             IN  IF ch \in RecvBytes
                     THEN IF ch = "\n"
                          THEN [return EXCEPT !.ret = current_len + 1,
                                              !.buffer = Append(buf, ch),
                                              !.consumed = current_len + 1]
                          ELSE RecvLoopTimeoutAlways(Tail(events), max_len,
                                                     Append(buf, ch))
                 ELSE IF ch = "EOF" THEN return
                 ELSE IF ch = "EINTR"
                     THEN RecvLoopTimeoutAlways(Tail(events), max_len, buf)
                 ELSE IF ch = "EAGAIN"
                     THEN [return EXCEPT !.ret = 0 - 2, !.buffer = <<>>]
                 ELSE [return EXCEPT !.ret = 0 - 1]

\* recv_line, lines 149-171: the loop, entered with buf collected so far;
\* events are the results of the calls of recv still to come
RECURSIVE RecvLoop(_, _, _)
RecvLoop(events, max_len, buf) ==
    LET current_len == Len(buf)
        return == [returned |-> TRUE, ret |-> current_len, buffer |-> buf,
                   terminated |-> TRUE, consumed |-> current_len]
    IN  IF ~(current_len < max_len - 1) THEN return
        ELSE IF events = <<>> THEN Blocked(buf, current_len)
        ELSE LET ch == Head(events)
             IN  IF ch \in RecvBytes
                     THEN IF ch = "\n"
                          THEN [return EXCEPT !.ret = current_len + 1,
                                              !.buffer = Append(buf, ch),
                                              !.consumed = current_len + 1]
                          ELSE RecvLoop(Tail(events), max_len, Append(buf, ch))
                 ELSE IF ch = "EOF" THEN return
                 ELSE IF ch = "EINTR" THEN RecvLoop(Tail(events), max_len, buf)
                 ELSE IF ch = "EAGAIN"
                     THEN IF current_len = 0
                          THEN [return EXCEPT !.ret = 0 - 2, !.buffer = <<>>]
                          ELSE return
                 ELSE [return EXCEPT !.ret = 0 - 1]

\* recv_line(sockfd, buffer, max_len), lines 135-172, for a buffer that is
\* not NULL
recv_line(events, max_len) ==
    IF max_len = 0
        THEN [returned |-> TRUE, ret |-> 0 - 1, buffer |-> <<>>,
              terminated |-> FALSE, consumed |-> 0]
    ELSE IF max_len = 1
        THEN [returned |-> TRUE, ret |-> 0, buffer |-> <<>>,
              terminated |-> TRUE, consumed |-> 0]
    ELSE RecvLoop(events, max_len, <<>>)

\* what one call of send may return: the number of bytes the socket takes
\* (no more than asked for), 0, or -1 with errno EINTR or another error
SendEvents ==
    { [ret |-> n, errno |-> "none"] : n \in 0 .. 2 }
    \cup { [ret |-> 0 - 1, errno |-> e] : e \in {"EINTR", "EPIPE"} }

\* faulty variant: success is reported after the first send that takes
\* bytes, however few
SendLoopOnce(buffer, length, events, total_sent, handed) ==
    IF ~(total_sent < length)
        THEN [returned |-> TRUE, ret |-> 0, handed |-> handed]
    ELSE IF events = <<>>
        THEN [returned |-> FALSE, ret |-> 0, handed |-> handed]
    ELSE IF Head(events).ret <= 0
        THEN [returned |-> Head(events).errno # "EINTR", ret |-> 0 - 1,
              handed |-> handed]
    ELSE [returned |-> TRUE, ret |-> 0,
          handed |-> Take(buffer, Min(Head(events).ret, length))]

\* send_all, lines 99-113: the loop; handed collects the bytes the socket
\* has taken
RECURSIVE SendLoop(_, _, _, _, _)
SendLoop(buffer, length, events, total_sent, handed) ==
    IF ~(total_sent < length)
        THEN [returned |-> TRUE, ret |-> 0, handed |-> handed]
    ELSE IF events = <<>>
        THEN [returned |-> FALSE, ret |-> 0, handed |-> handed]
    ELSE LET sent_bytes == Head(events).ret
             errno == Head(events).errno
         IN  IF sent_bytes = 0 - 1
                 THEN IF errno = "EINTR"
                      THEN SendLoop(buffer, length, Tail(events), total_sent,
                                    handed)
                      ELSE [returned |-> TRUE, ret |-> 0 - 1, handed |-> handed]
             ELSE IF sent_bytes = 0
                 THEN [returned |-> TRUE, ret |-> 0 - 1, handed |-> handed]
             ELSE LET n == Min(sent_bytes, length - total_sent)
                  IN  SendLoop(buffer, length, Tail(events), total_sent + n,
                               handed \o SubSeq(buffer, total_sent + 1,
                                                total_sent + n))

\* send_all(sockfd, buffer, length), lines 94-114, for a buffer that is not
\* NULL
send_all(buffer, length, events) == SendLoop(buffer, length, events, 0, <<>>)

\* ------------------------------------------------------------------------
\* State
\* ------------------------------------------------------------------------

Clients == 1 .. MaxClients

VARIABLES
    load,                \* the run explored: "single", "concurrent",
                         \* "shutdown", "script", "list", "registry", or
                         \* one of "io", "jail", "split", "stream" and
                         \* "prompt" for calls explored on their own
    clientpc,            \* the client of a script run: "idle" (it runs no
                         \* script), "prompt", "read", "wait", "bye", "end"
    script,              \* the lines of the file the client runs
    scriptPos,           \* the lines of it fgets has returned
    openFiles,           \* the script files the client has open
    wire,                \* the lines the client has sent and the server has
                         \* not read yet
    call,                \* a call of recv_line or send_all on its own: its
                         \* arguments and what recv or send will return
    result,              \* what the call returned
    server_root_global,  \* main: the canonical root directory
    g_server_running,    \* 1 until a shutdown signal is handled, then 0
    mainpc,              \* main: "accept" in the accept loop (its condition
                         \* found true, accept not yet returned), "shutdown"
                         \* out of the loop, "destroy" after the walk of the
                         \* tracked list, "exited" when main has returned
    g_active_sockets,    \* the tracked list of client sockets, head first
    pc,                  \* per connection: where its handler thread stands
    sock,                \* per connection: "none", "open", "shut" (after
                         \* shutdown(SHUT_RDWR)) or "closed"
    closes,              \* per connection: the calls of close on its socket
    root,                \* per connection: data->server_root_abs
    cwd,                 \* per connection: data->current_wd_abs
    buffer,              \* per connection: the line being handled, stripped
    response,            \* per connection: the response buffer
    listPos,             \* per connection: entries handle_list has read
    g_sockets_list_mutex, \* its state ("free", "locked", or "destroyed"
                         \* after pthread_mutex_destroy) and the thread that
                         \* holds it (a connection's, or MAIN)
    client_sockfd,       \* per connection: the descriptor accept returned
    current,             \* main's shutdown walk: the nodes still to visit
    registeredBy,        \* history: per descriptor, the connection for which
                         \* it was added to the tracked list last
    shutdownCalls,       \* history: the calls of shutdown() in main's walk
    listEv,              \* per connection: what handle_list did last for
                         \* the line being handled (an entry read, opendir
                         \* or readdir failed)
    replies,             \* per connection: what was handed to send_all for
                         \* the line being handled, in order
    sendErr,             \* history: send_all failed while the line was handled
    cwdBefore,           \* history: current_wd_abs when the line was received
    childCd              \* history: "in" when the last line handled was a
                         \* successful CD from the root into a real child
                         \* directory, "back" when the line after such a
                         \* line is "CD ..", "no" otherwise

vars == <<load, call, result, clientpc, script, scriptPos, openFiles, wire,
          server_root_global, g_server_running, mainpc, g_active_sockets,
          pc, sock, closes, root, cwd, buffer, response, listPos, listEv,
          replies, sendErr, cwdBefore, childCd, g_sockets_list_mutex,
          client_sockfd, current, registeredBy, shutdownCalls>>

\* a call of the line transport on its own, for the actions that leave it
\* alone
io == <<call, result>>

\* no such call is made
NoCall == [fn |-> "none"]
NoResult == [returned |-> FALSE]
NoIo == call = NoCall /\ result = NoResult

\* the client of a script run, for the actions that leave it alone
clientFile == <<clientpc, script, scriptPos, openFiles>>
client == <<clientFile, wire>>

\* the server, for the actions of the client
server == <<server_root_global, g_server_running, mainpc, g_active_sockets,
            pc, sock, closes, root, cwd, buffer, response, listPos, listEv,
            replies, sendErr, cwdBefore, childCd, g_sockets_list_mutex,
            client_sockfd, current, registeredBy, shutdownCalls>>

\* the states of the mutex; MAIN stands for the main thread
MAIN == 0
MutexFree == [state |-> "free", owner |-> MAIN]
MutexHeldBy(t) == [state |-> "locked", owner |-> t]
MutexDestroyed == [state |-> "destroyed", owner |-> MAIN]

\* the mutex, the descriptors and main's walk of the tracked list, for the
\* actions of the runs that do not follow them step by step
reg == <<g_sockets_list_mutex, client_sockfd, current, registeredBy,
         shutdownCalls>>

\* the history variables, for the actions that leave them alone
hist == <<sendErr, cwdBefore, childCd>>

\* thread_data does not exist (before accept, after free)
NoData == <<>>

\* handle_list has done nothing for the line being handled
NoListEv == [kind |-> "none", name |-> <<>>, readlink_ok |-> TRUE]

\* main has reached its accept loop for the first time; no connection yet
InitState ==
    /\ server_root_global \in ServerRoots
    /\ g_server_running = 1
    /\ mainpc = "accept"
    /\ g_active_sockets = <<>>
    /\ closes = [c \in Clients |-> 0]
    /\ pc = [c \in Clients |-> "free"]
    /\ sock = [c \in Clients |-> "none"]
    /\ root = [c \in Clients |-> NoData]
    /\ cwd = [c \in Clients |-> NoData]
    /\ buffer = [c \in Clients |-> <<>>]
    /\ response = [c \in Clients |-> <<>>]
    /\ listPos = [c \in Clients |-> 0]
    /\ listEv = [c \in Clients |-> NoListEv]
    /\ g_sockets_list_mutex = MutexFree
    /\ client_sockfd = [c \in Clients |-> 0]
    /\ current = <<>>
    /\ registeredBy = [f \in Clients |-> 0]
    /\ shutdownCalls = <<>>
    /\ replies = [c \in Clients |-> <<>>]
    /\ sendErr = [c \in Clients |-> FALSE]
    /\ cwdBefore = [c \in Clients |-> NoData]
    /\ childCd = [c \in Clients |-> "no"]

\* no client runs a script
NoScript ==
    /\ clientpc = "idle"
    /\ script = <<>>
    /\ scriptPos = 0
    /\ openFiles = 0
    /\ wire = <<>>

Init ==
    /\ load \in {"single", "concurrent"}
    /\ NoIo
    /\ NoScript
    /\ InitState

\* add_client_socket: insert at the head
AddClientSocket(list, fd) == <<fd>> \o list

\* remove_client_socket: unlink the first node holding fd
RECURSIVE RemoveClientSocket(_, _)
RemoveClientSocket(list, fd) ==
    IF list = <<>> THEN <<>>
    ELSE IF Head(list) = fd THEN Tail(list)
    ELSE <<Head(list)>> \o RemoveClientSocket(Tail(list), fd)

\* ------------------------------------------------------------------------
\* main: one iteration of the accept loop
\* ------------------------------------------------------------------------

\* accept succeeds and the handler thread is created
Accept(c) ==
    /\ mainpc = "accept"
    /\ mainpc' = IF g_server_running = 1 THEN "accept" ELSE "shutdown"
    /\ pc[c] = "free"
    /\ \A d \in Clients : d < c => pc[d] # "free"
    /\ load \in {"single", "script", "list"} => c = 1
    /\ g_active_sockets' = AddClientSocket(g_active_sockets, c)
    /\ sock' = [sock EXCEPT ![c] = "open"]
    /\ root' = [root EXCEPT ![c] = Take(server_root_global, MAX_PATH_LEN - 1)]
    /\ cwd' = [cwd EXCEPT ![c] = Take(server_root_global, MAX_PATH_LEN - 1)]
    /\ pc' = [pc EXCEPT ![c] = "welcome"]
    /\ UNCHANGED <<load, io, listEv, reg, server_root_global, client, g_server_running, closes,
                   buffer, response, listPos, replies, hist>>

\* accept succeeds and pthread_create fails
AcceptNoThread(c) ==
    /\ mainpc = "accept"
    /\ mainpc' = IF g_server_running = 1 THEN "accept" ELSE "shutdown"
    /\ pc[c] = "free"
    /\ \A d \in Clients : d < c => pc[d] # "free"
    /\ load \in {"single", "script", "list"} => c = 1
    /\ g_active_sockets' =
           RemoveClientSocket(AddClientSocket(g_active_sockets, c), c)
    /\ sock' = [sock EXCEPT ![c] = "closed"]
    /\ closes' = [closes EXCEPT ![c] = @ + 1]
    /\ pc' = [pc EXCEPT ![c] = "done"]
    /\ UNCHANGED <<load, io, listEv, reg, server_root_global, client, g_server_running, root, cwd,
                   buffer, response, listPos, replies, hist>>

\* ------------------------------------------------------------------------
\* client_handler_thread
\* ------------------------------------------------------------------------

\* a handler thread takes steps as long as main has not returned
ProcessRuns == mainpc # "exited"

\* line 283: the welcome message is sent (send_all returns 0)
SendWelcome(c) ==
    /\ ProcessRuns
    /\ pc[c] = "welcome"
    /\ sock[c] = "open"
    /\ replies' = [replies EXCEPT ![c] = <<SERVER_DEFAULT_WELCOME_MSG>>]
    /\ pc' = [pc EXCEPT ![c] = "loop"]
    /\ UNCHANGED <<load, io, listEv, reg, server_root_global, client, g_server_running, mainpc, closes, g_active_sockets, sock, root,
                   cwd, buffer, response, listPos, hist>>

\* line 283: send_all fails on the welcome message
SendWelcomeFail(c) ==
    /\ ProcessRuns
    /\ pc[c] = "welcome"
    /\ replies' = [replies EXCEPT ![c] = <<SERVER_DEFAULT_WELCOME_MSG>>]
    /\ pc' = [pc EXCEPT ![c] = "cleanup"]
    /\ sendErr' = [sendErr EXCEPT ![c] = TRUE]
    /\ UNCHANGED <<load, io, listEv, reg, server_root_global, client, g_server_running, mainpc, closes, g_active_sockets, sock, root,
                   cwd, buffer, response, listPos, cwdBefore,
                   childCd>>

\* line 319: the text of the reply to an unknown command
UNKNOWN_COMMAND ==
    <<"U", "n", "k", "n", "o", "w", "n", " ", "c", "o", "m", "m", "a", "n", "d",
      ":", " ">>

\* faulty variant: the reply does not name the token
UnknownCommandReplyNoToken(command) ==
    Take(RESP_ERROR_PREFIX \o UNKNOWN_COMMAND \o NL, MAX_BUFFER_SIZE - 1)

\* faulty variant: a token that begins with '@' is taken for a script to
\* run and gets no reply of its own
UnknownCommandReplyScript(command) ==
    IF Head(command) = "@" THEN <<>>
    ELSE Take(RESP_ERROR_PREFIX \o UNKNOWN_COMMAND \o command \o NL,
              MAX_BUFFER_SIZE - 1)

\* line 319: snprintf(response, MAX_BUFFER_SIZE, "%sUnknown command: %s\n",
\* RESP_ERROR_PREFIX, command), for a command that is not empty
UnknownCommandReply(command) ==
    Take(RESP_ERROR_PREFIX \o UNKNOWN_COMMAND \o command \o NL,
         MAX_BUFFER_SIZE - 1)

\* faulty variant: QUIT is answered like any other command and the loop
\* goes on
DispatchQuitNoBreak(server_root_abs, current_wd_abs, line) ==
    LET p == Sscanf(StripEol(line))
        cd == HandleCd(server_root_abs, current_wd_abs, p.cmd_arg, MAX_BUFFER_SIZE)
        stay == [pc |-> "send", cwd |-> current_wd_abs, response |-> <<>>]
    IN  IF p.command = CMD_ECHO
            THEN [stay EXCEPT !.response = Take(p.cmd_arg \o NL, MAX_BUFFER_SIZE - 1)]
        ELSE IF p.command = CMD_QUIT
            THEN [stay EXCEPT !.response = Take(RESP_BYE \o NL, MAX_BUFFER_SIZE - 1)]
        ELSE IF p.command = CMD_INFO
            THEN [stay EXCEPT !.response =
                                  Take(SERVER_DEFAULT_WELCOME_MSG, MAX_BUFFER_SIZE - 1)]
        ELSE IF p.command = CMD_CD
            THEN [stay EXCEPT !.cwd = cd.cwd, !.response = cd.response]
        ELSE IF p.command = CMD_LIST
            THEN [stay EXCEPT !.pc = "list"]
        ELSE IF Len(p.command) > 0
            THEN [stay EXCEPT !.response = UnknownCommandReply(p.command)]
        ELSE stay

\* lines 289-321: what the handler does with a received line, up to the
\* first send: the next position, the working directory and the response
Dispatch(server_root_abs, current_wd_abs, line) ==
    LET buf == StripEol(line)
        p == Sscanf(buf)
        cd == HandleCd(server_root_abs, current_wd_abs, p.cmd_arg, MAX_BUFFER_SIZE)
        stay == [pc |-> "send", cwd |-> current_wd_abs, response |-> <<>>]
    IN  IF p.command = CMD_ECHO
            THEN [stay EXCEPT !.response = Take(p.cmd_arg \o NL, MAX_BUFFER_SIZE - 1)]
        ELSE IF p.command = CMD_QUIT
            THEN [stay EXCEPT !.pc = "bye",
                              !.response = Take(RESP_BYE \o NL, MAX_BUFFER_SIZE - 1)]
        ELSE IF p.command = CMD_INFO
            THEN [stay EXCEPT !.response =
                                  Take(SERVER_DEFAULT_WELCOME_MSG, MAX_BUFFER_SIZE - 1)]
        ELSE IF p.command = CMD_CD
            THEN [stay EXCEPT !.cwd = cd.cwd, !.response = cd.response]
        ELSE IF p.command = CMD_LIST
            THEN [stay EXCEPT !.pc = "list"]
        ELSE IF Len(p.command) > 0
            THEN [stay EXCEPT !.response = UnknownCommandReply(p.command)]
        ELSE stay

\* history: line is "CD dir" handled at the root, dir names a directory that
\* is a direct child of the root (not a link to one), and the working
\* directory it left is that child
IsChildCd(server_root_abs, current_wd_abs, line, new_wd) ==
    LET p == Sscanf(line)
    IN  /\ p.command = CMD_CD
        /\ current_wd_abs = server_root_abs
        /\ p.cmd_arg # <<>>
        /\ p.cmd_arg \notin {DOT, DOTDOT}
        /\ \A i \in 1 .. Len(p.cmd_arg) : p.cmd_arg[i] # "/"
        /\ Lstat(server_root_abs \o SLASH \o p.cmd_arg).kind = "dir"
        /\ new_wd = server_root_abs \o SLASH \o p.cmd_arg

\* line 288: the loop calls recv_line, which waits for the client; what the
\* previous line left in the buffers is dead from here on
LoopTop(c) ==
    /\ ProcessRuns
    /\ pc[c] = "loop"
    /\ pc' = [pc EXCEPT ![c] = "recv"]
    /\ buffer' = [buffer EXCEPT ![c] = <<>>]
    /\ response' = [response EXCEPT ![c] = <<>>]
    /\ listPos' = [listPos EXCEPT ![c] = 0]
    /\ listEv' = [listEv EXCEPT ![c] = NoListEv]
    /\ replies' = [replies EXCEPT ![c] = <<>>]
    /\ sendErr' = [sendErr EXCEPT ![c] = FALSE]
    /\ cwdBefore' = [cwdBefore EXCEPT ![c] = NoData]
    /\ UNCHANGED <<load, io, reg, server_root_global, client, g_server_running, mainpc, closes, g_active_sockets, sock, root,
                   cwd, childCd>>

\* faulty variant: the working directory is one buffer shared by all the
\* handler threads
RecvLineSharedCwd(c) ==
    /\ ProcessRuns
    /\ pc[c] = "recv"
    /\ \E line \in LinesSent(load, wire) :
          \E d \in {Dispatch(root[c], cwd[c], line)} :
              /\ buffer' = [buffer EXCEPT ![c] = StripEol(line)]
              /\ cwd' = [x \in Clients |-> IF cwd[x] = NoData THEN NoData ELSE d.cwd]
              /\ response' = [response EXCEPT ![c] = d.response]
              /\ pc' = [pc EXCEPT ![c] =
                     IF d.pc = "send" /\ Len(d.response) = 0 THEN "loop" ELSE d.pc]
              /\ childCd' = [childCd EXCEPT ![c] = "no"]
    /\ cwdBefore' = [cwdBefore EXCEPT ![c] = cwd[c]]
    /\ wire' = IF wire = <<>> THEN wire ELSE Tail(wire)
    /\ UNCHANGED <<load, io, listEv, reg, server_root_global, clientFile, g_server_running, mainpc, closes, g_active_sockets, sock, root,
                   listPos, replies, sendErr>>

\* line 288: recv_line returns a line; lines 289-321 handle it.  A handler
\* whose response is empty (line 323) is back at the top of the loop.
RecvLine(c) ==
    /\ ProcessRuns
    /\ pc[c] = "recv"
    /\ \E line \in LinesSent(load, wire) :
          \E d \in {Dispatch(root[c], cwd[c], line)} :
              /\ buffer' = [buffer EXCEPT ![c] = StripEol(line)]
              /\ cwd' = [cwd EXCEPT ![c] = d.cwd]
              /\ response' = [response EXCEPT ![c] = d.response]
              /\ pc' = [pc EXCEPT ![c] =
                     IF d.pc = "send" /\ Len(d.response) = 0 THEN "loop" ELSE d.pc]
              /\ childCd' = [childCd EXCEPT ![c] =
                     IF IsChildCd(root[c], cwd[c], StripEol(line), d.cwd) THEN "in"
                     ELSE IF @ = "in" /\ StripEol(line) = CMD_CD \o SP \o DOTDOT
                         THEN "back"
                     ELSE "no"]
    /\ cwdBefore' = [cwdBefore EXCEPT ![c] = cwd[c]]
    /\ wire' = IF wire = <<>> THEN wire ELSE Tail(wire)
    /\ UNCHANGED <<load, io, listEv, reg, server_root_global, clientFile, g_server_running, mainpc, closes, g_active_sockets, sock, root,
                   listPos, replies, sendErr>>

\* line 288: recv_line returns 0 (peer closed) or -1 (socket error)
RecvEnd(c) ==
    /\ ProcessRuns
    /\ pc[c] = "recv"
    /\ pc' = [pc EXCEPT ![c] = "cleanup"]
    /\ UNCHANGED <<load, io, listEv, reg, server_root_global, client, g_server_running, mainpc, closes, g_active_sockets, sock, root,
                   cwd, buffer, response, listPos, replies, hist>>

\* lines 323-324: the response is sent (send_all returns 0)
SendResponse(c) ==
    /\ ProcessRuns
    /\ pc[c] = "send"
    /\ sock[c] = "open"
    /\ replies' = [replies EXCEPT ![c] = Append(@, response[c])]
    /\ pc' = [pc EXCEPT ![c] = "loop"]
    /\ UNCHANGED <<load, io, listEv, reg, server_root_global, client, g_server_running, mainpc, closes, g_active_sockets, sock, root,
                   cwd, buffer, response, listPos, hist>>

\* lines 324-327: send_all fails on the response
SendResponseFail(c) ==
    /\ ProcessRuns
    /\ pc[c] = "send"
    /\ replies' = [replies EXCEPT ![c] = Append(@, response[c])]
    /\ pc' = [pc EXCEPT ![c] = "cleanup"]
    /\ sendErr' = [sendErr EXCEPT ![c] = TRUE]
    /\ UNCHANGED <<load, io, listEv, reg, server_root_global, client, g_server_running, mainpc, closes, g_active_sockets, sock, root,
                   cwd, buffer, response, listPos, cwdBefore,
                   childCd>>

\* lines 303-308: BYE is sent, the loop is left
SendBye(c) ==
    /\ ProcessRuns
    /\ pc[c] = "bye"
    /\ sock[c] = "open"
    /\ replies' = [replies EXCEPT ![c] = Append(@, response[c])]
    /\ pc' = [pc EXCEPT ![c] = "cleanup"]
    /\ UNCHANGED <<load, io, listEv, reg, server_root_global, client, g_server_running, mainpc, closes, g_active_sockets, sock, root,
                   cwd, buffer, response, listPos, hist>>

\* lines 304-308: send_all fails on BYE, the loop is left all the same
SendByeFail(c) ==
    /\ ProcessRuns
    /\ pc[c] = "bye"
    /\ replies' = [replies EXCEPT ![c] = Append(@, response[c])]
    /\ pc' = [pc EXCEPT ![c] = "cleanup"]
    /\ sendErr' = [sendErr EXCEPT ![c] = TRUE]
    /\ UNCHANGED <<load, io, listEv, reg, server_root_global, client, g_server_running, mainpc, closes, g_active_sockets, sock, root,
                   cwd, buffer, response, listPos, cwdBefore,
                   childCd>>

\* the entries of the directory handle_list has open
ListEntries(c) == DirNames(SelectSeq(Split(cwd[c]), LAMBDA x : x # <<>>))

\* handle_list, lines 601-616: readdir reports the end; handle_list returns
ListEnd(c) ==
    /\ ProcessRuns
    /\ pc[c] = "list"
    /\ listPos[c] = Len(ListEntries(c))
    /\ pc' = [pc EXCEPT ![c] = "loop"]
    /\ UNCHANGED <<load, io, listEv, reg, server_root_global, client, g_server_running, mainpc, closes, g_active_sockets, sock, root,
                   cwd, buffer, response, listPos, replies, hist>>

\* handle_list, lines 601-710: one entry is read and its line is sent
\* ("." and "..", and an entry without a line, send nothing)
ListItem(c) ==
    /\ ProcessRuns
    /\ pc[c] = "list"
    /\ listPos[c] < Len(ListEntries(c))
    /\ LET d_name == ListEntries(c)[listPos[c] + 1]
           response_line == IF d_name \in {DOT, DOTDOT} THEN <<>>
                            ELSE ListItemLine(root[c], cwd[c], d_name, TRUE)
       IN  /\ Len(response_line) > 0 => sock[c] = "open"
           /\ replies' = [replies EXCEPT ![c] =
                  IF Len(response_line) > 0 THEN Append(@, response_line)
                  ELSE @]
    /\ listPos' = [listPos EXCEPT ![c] = @ + 1]
    /\ listEv' = [listEv EXCEPT ![c] =
           [kind |-> "entry", name |-> ListEntries(c)[listPos[c] + 1],
            readlink_ok |-> TRUE]]
    /\ UNCHANGED <<load, io, reg, server_root_global, client, g_server_running, mainpc, closes, g_active_sockets, pc, sock,
                   root, cwd, buffer, response, hist>>

\* handle_list, lines 707, 712-713: send_all fails on an entry's line;
\* handle_list returns and the handler is back at the top of the loop
ListItemFail(c) ==
    /\ ProcessRuns
    /\ pc[c] = "list"
    /\ listPos[c] < Len(ListEntries(c))
    /\ LET d_name == ListEntries(c)[listPos[c] + 1]
       IN  /\ d_name \notin {DOT, DOTDOT}
           /\ Len(ListItemLine(root[c], cwd[c], d_name, TRUE)) > 0
           /\ replies' = [replies EXCEPT ![c] =
                  Append(@, ListItemLine(root[c], cwd[c], d_name, TRUE))]
    /\ pc' = [pc EXCEPT ![c] = "loop"]
    /\ sendErr' = [sendErr EXCEPT ![c] = TRUE]
    /\ listEv' = [listEv EXCEPT ![c] =
           [kind |-> "entry", name |-> ListEntries(c)[listPos[c] + 1],
            readlink_ok |-> TRUE]]
    /\ UNCHANGED <<load, io, reg, server_root_global, client, g_server_running, mainpc, closes, g_active_sockets, sock, root,
                   cwd, buffer, response, listPos, cwdBefore,
                   childCd>>

\* faulty variant: a directory that cannot be opened ends the session
ListOpenFailFatal(c) ==
    /\ ProcessRuns
    /\ pc[c] = "list"
    /\ listPos[c] = 0
    /\ listEv[c] = NoListEv
    /\ \E err_msg \in OpendirErrors :
          replies' = [replies EXCEPT ![c] =
              Append(@, ListOpenErrorLine(cwd[c], err_msg))]
    /\ sendErr' = [sendErr EXCEPT ![c] = TRUE]
    /\ listEv' = [listEv EXCEPT ![c] =
           [kind |-> "open_failed", name |-> <<>>, readlink_ok |-> TRUE]]
    /\ pc' = [pc EXCEPT ![c] = "cleanup"]
    /\ UNCHANGED <<load, io, reg, server_root_global, client, g_server_running,
                   mainpc, closes, g_active_sockets, sock, root, cwd, buffer,
                   response, listPos, cwdBefore, childCd>>

\* handle_list, lines 583-597: opendir fails; one line is handed to
\* send_all, whose result is not looked at, and handle_list returns
ListOpenFail(c) ==
    /\ ProcessRuns
    /\ pc[c] = "list"
    /\ listPos[c] = 0
    /\ listEv[c] = NoListEv
    /\ \E err_msg \in OpendirErrors :
          replies' = [replies EXCEPT ![c] =
              Append(@, ListOpenErrorLine(cwd[c], err_msg))]
    /\ \E sent \in BOOLEAN :
          /\ sent => sock[c] = "open"
          /\ sendErr' = [sendErr EXCEPT ![c] = ~sent]
    /\ listEv' = [listEv EXCEPT ![c] =
           [kind |-> "open_failed", name |-> <<>>, readlink_ok |-> TRUE]]
    /\ pc' = [pc EXCEPT ![c] = "loop"]
    /\ UNCHANGED <<load, io, reg, server_root_global, client, g_server_running,
                   mainpc, closes, g_active_sockets, sock, root, cwd, buffer,
                   response, listPos, cwdBefore, childCd>>

\* handle_list, lines 601-616: readdir fails; one line is handed to send_all,
\* whose result changes nothing, and the loop is left
ListReadFail(c) ==
    /\ ProcessRuns
    /\ pc[c] = "list"
    /\ \E err_msg \in ReaddirErrors :
          replies' = [replies EXCEPT ![c] =
              IF Len(ListReadErrorLine(err_msg)) > 0
              THEN Append(@, ListReadErrorLine(err_msg)) ELSE @]
    /\ \E sent \in BOOLEAN :
          /\ sent => sock[c] = "open"
          /\ sendErr' = [sendErr EXCEPT ![c] = ~sent]
    /\ listEv' = [listEv EXCEPT ![c] =
           [kind |-> "read_failed", name |-> <<>>, readlink_ok |-> TRUE]]
    /\ pc' = [pc EXCEPT ![c] = "loop"]
    /\ UNCHANGED <<load, io, reg, server_root_global, client, g_server_running,
                   mainpc, closes, g_active_sockets, sock, root, cwd, buffer,
                   response, listPos, cwdBefore, childCd>>

\* handle_list, lines 649-652, 698-710: lstat finds a symlink and readlink
\* on it fails; the entry's line is sent, or send_all fails on it and
\* handle_list returns
ListItemReadlinkFail(c) ==
    /\ ProcessRuns
    /\ pc[c] = "list"
    /\ listPos[c] < Len(ListEntries(c))
    /\ LET d_name == ListEntries(c)[listPos[c] + 1]
           response_line == ListItemLine(root[c], cwd[c], d_name, FALSE)
       IN  /\ d_name \notin {DOT, DOTDOT}
           /\ Lstat(ItemPathAbs(cwd[c], d_name)).kind = "link"
           /\ replies' = [replies EXCEPT ![c] = Append(@, response_line)]
           /\ listEv' = [listEv EXCEPT ![c] =
                  [kind |-> "entry", name |-> d_name, readlink_ok |-> FALSE]]
    /\ \E sent \in BOOLEAN :
          IF sent
          THEN /\ sock[c] = "open"
               /\ listPos' = [listPos EXCEPT ![c] = @ + 1]
               /\ UNCHANGED <<pc, sendErr>>
          ELSE /\ pc' = [pc EXCEPT ![c] = "loop"]
               /\ sendErr' = [sendErr EXCEPT ![c] = TRUE]
               /\ UNCHANGED listPos
    /\ UNCHANGED <<load, io, reg, server_root_global, client, g_server_running,
                   mainpc, closes, g_active_sockets, sock, root, cwd, buffer,
                   response, cwdBefore, childCd>>

\* lines 340-347: remove_client_socket, close, free
Cleanup(c) ==
    /\ ProcessRuns
    /\ pc[c] = "cleanup"
    /\ g_active_sockets' = RemoveClientSocket(g_active_sockets, c)
    /\ sock' = [sock EXCEPT ![c] = "closed"]
    /\ closes' = [closes EXCEPT ![c] = @ + 1]
    /\ root' = [root EXCEPT ![c] = NoData]
    /\ cwd' = [cwd EXCEPT ![c] = NoData]
    /\ pc' = [pc EXCEPT ![c] = "done"]
    /\ cwdBefore' = [cwdBefore EXCEPT ![c] = NoData]
    /\ childCd' = [childCd EXCEPT ![c] = "no"]
    /\ UNCHANGED <<load, io, listEv, reg, server_root_global, client, g_server_running, mainpc,
                   buffer, response, listPos, replies, sendErr>>

\* ------------------------------------------------------------------------
\* Shutdown: sigint_handler and the end of main
\* ------------------------------------------------------------------------

\* sigint_handler runs while main is blocked in accept: accept returns -1
\* with EINTR, line 211 continues and the loop condition is false
SignalInAccept ==
    /\ mainpc = "accept"
    /\ g_server_running' = 0
    /\ mainpc' = "shutdown"
    /\ UNCHANGED <<load, io, listEv, reg, server_root_global, client, g_active_sockets, pc, sock,
                   closes, root, cwd, buffer, response, listPos, replies,
                   hist>>

\* sigint_handler runs at any other moment (main between the loop condition
\* and the call of accept, or past the loop) or in a handler thread, whose
\* recv and send are retried on EINTR: only the flag changes
SignalElsewhere ==
    /\ mainpc # "exited"
    /\ g_server_running = 1
    /\ g_server_running' = 0
    /\ UNCHANGED <<load, io, listEv, reg, server_root_global, client, mainpc, g_active_sockets, pc,
                   sock, closes, root, cwd, buffer, response, listPos,
                   replies, hist>>

\* lines 246-265: the listener is closed; under the mutex every tracked
\* socket is shut down and the tracked list is freed
MainShutdown ==
    /\ mainpc = "shutdown"
    /\ sock' = [c \in Clients |->
                 IF \E i \in 1 .. Len(g_active_sockets) : g_active_sockets[i] = c
                 THEN "shut" ELSE sock[c]]
    /\ g_active_sockets' = <<>>
    /\ mainpc' = "destroy"
    /\ UNCHANGED <<load, io, listEv, reg, server_root_global, client, g_server_running, pc, closes,
                   root, cwd, buffer, response, listPos, replies, hist>>

\* lines 267-269: the mutex is destroyed and main returns, which ends the
\* process and every handler thread with it, wherever the thread stands
MainExit ==
    /\ mainpc = "destroy"
    /\ mainpc' = "exited"
    /\ UNCHANGED <<load, io, listEv, reg, server_root_global, client, g_server_running,
                   g_active_sockets, pc, sock, closes, root, cwd, buffer,
                   response, listPos, replies, hist>>

Next ==
    \E c \in Clients :
        \/ Accept(c)
        \/ AcceptNoThread(c)
        \/ SendWelcome(c)
        \/ SendWelcomeFail(c)
        \/ LoopTop(c)
        \/ RecvLine(c)
        \/ RecvEnd(c)
        \/ SendResponse(c)
        \/ SendResponseFail(c)
        \/ SendBye(c)
        \/ SendByeFail(c)
        \/ ListItem(c)
        \/ ListItemFail(c)
        \/ ListEnd(c)
        \/ Cleanup(c)

Spec == Init /\ [][Next]_vars

\* the server with its shutdown: the handler threads run as long as the
\* process exists
InitMain ==
    /\ load = "shutdown"
    /\ NoIo
    /\ NoScript
    /\ InitState

NextMain ==
    \/ Next
    \/ SignalInAccept
    \/ SignalElsewhere
    \/ MainShutdown
    \/ MainExit

SpecMain == InitMain /\ [][NextMain]_vars

\* ------------------------------------------------------------------------
\* The tracked list step by step: main's accept loop and shutdown sequence
\* and the cleanup of the handler threads, each a sequence of steps that
\* interleave; the critical sections of g_sockets_list_mutex are single
\* steps, except main's walk.  What a session does between its start and its
\* cleanup is left out.
\* ------------------------------------------------------------------------

\* the variables these steps leave alone
session == <<load, io, listEv, server_root_global, client, root, cwd, buffer,
             response, listPos, replies, hist>>

\* the descriptors that are open in the process
OpenFds == {client_sockfd[c] : c \in {d \in Clients : sock[d] \in {"open", "shut"}}}

\* accept returns the lowest descriptor that is not open
LowestFreeFd == Least({f \in Clients : f \notin OpenFds})

\* line 209: accept returns a new descriptor
RegAccept(c) ==
    /\ mainpc = "accept"
    /\ pc[c] = "free"
    /\ \A d \in Clients : d < c => pc[d] # "free"
    /\ client_sockfd' = [client_sockfd EXCEPT ![c] = LowestFreeFd]
    /\ sock' = [sock EXCEPT ![c] = "open"]
    /\ pc' = [pc EXCEPT ![c] = "accepted"]
    /\ mainpc' = "add"
    /\ UNCHANGED <<session, g_server_running, g_active_sockets, closes,
                   g_sockets_list_mutex, current, registeredBy, shutdownCalls>>

\* line 222: add_client_socket (lines 76-86) under the mutex
RegAdd(c) ==
    /\ mainpc = "add"
    /\ pc[c] = "accepted"
    /\ g_sockets_list_mutex = MutexFree
    /\ g_active_sockets' = AddClientSocket(g_active_sockets, client_sockfd[c])
    /\ registeredBy' = [registeredBy EXCEPT ![client_sockfd[c]] = c]
    /\ pc' = [pc EXCEPT ![c] = "registered"]
    /\ mainpc' = "create"
    /\ UNCHANGED <<session, g_server_running, sock, closes, client_sockfd,
                   g_sockets_list_mutex, current, shutdownCalls>>

\* lines 236, 241-243 and the loop condition at line 208: pthread_create
\* succeeds
RegCreate(c) ==
    /\ mainpc = "create"
    /\ pc[c] = "registered"
    /\ pc' = [pc EXCEPT ![c] = "run"]
    /\ mainpc' = IF g_server_running = 1 THEN "accept" ELSE "shutdown"
    /\ UNCHANGED <<session, g_server_running, g_active_sockets, sock, closes,
                   reg>>

\* lines 236-240 and the loop condition: pthread_create fails; main removes
\* the descriptor from the list, then closes it
RegCreateFail(c) ==
    /\ mainpc = "create"
    /\ pc[c] = "registered"
    /\ g_sockets_list_mutex = MutexFree
    /\ g_active_sockets' = RemoveClientSocket(g_active_sockets, client_sockfd[c])
    /\ sock' = [sock EXCEPT ![c] = "closed"]
    /\ closes' = [closes EXCEPT ![c] = @ + 1]
    /\ pc' = [pc EXCEPT ![c] = "done"]
    /\ mainpc' = IF g_server_running = 1 THEN "accept" ELSE "shutdown"
    /\ UNCHANGED <<session, g_server_running, reg>>

\* faulty variant: the descriptor is closed as soon as the session ends,
\* before it is removed from the list
SessionEndsClosing(c) ==
    /\ ProcessRuns
    /\ pc[c] = "run"
    /\ pc' = [pc EXCEPT ![c] = "cleanup"]
    /\ sock' = [sock EXCEPT ![c] = "closed"]
    /\ closes' = [closes EXCEPT ![c] = @ + 1]
    /\ UNCHANGED <<session, g_server_running, mainpc, g_active_sockets, reg>>

\* lines 283-338: the session ends (the welcome cannot be sent, QUIT, a
\* failed send, or recv_line returns 0, -1 or -2, as it does once main has
\* shut the socket down) and the thread is at the label cleanup
SessionEnds(c) ==
    /\ ProcessRuns
    /\ pc[c] = "run"
    /\ pc' = [pc EXCEPT ![c] = "cleanup"]
    /\ UNCHANGED <<session, g_server_running, mainpc, g_active_sockets, sock,
                   closes, reg>>

\* remove_client_socket line 93: the thread takes the mutex.  Locking a
\* mutex that has been destroyed is undefined; the call returns (with or
\* without an error, which is not looked at) and the thread goes on.
RegLock(c) ==
    /\ ProcessRuns
    /\ pc[c] = "cleanup"
    /\ g_sockets_list_mutex \in {MutexFree, MutexDestroyed}
    /\ g_sockets_list_mutex' =
           IF g_sockets_list_mutex = MutexFree THEN MutexHeldBy(c)
           ELSE MutexDestroyed
    /\ pc' = [pc EXCEPT ![c] = "remove"]
    /\ UNCHANGED <<session, g_server_running, mainpc, g_active_sockets, sock,
                   closes, client_sockfd, current, registeredBy, shutdownCalls>>

\* faulty variant: the node is left in the list
RegRemoveNothing(c) ==
    /\ ProcessRuns
    /\ pc[c] = "remove"
    /\ g_sockets_list_mutex' =
           IF g_sockets_list_mutex = MutexHeldBy(c) THEN MutexFree
           ELSE g_sockets_list_mutex
    /\ pc' = [pc EXCEPT ![c] = "close"]
    /\ UNCHANGED <<session, g_server_running, mainpc, g_active_sockets, sock,
                   closes, client_sockfd, current, registeredBy, shutdownCalls>>

\* remove_client_socket lines 94-109: the node is unlinked and the mutex
\* released
RegRemove(c) ==
    /\ ProcessRuns
    /\ pc[c] = "remove"
    /\ g_active_sockets' = RemoveClientSocket(g_active_sockets, client_sockfd[c])
    /\ g_sockets_list_mutex' =
           IF g_sockets_list_mutex = MutexHeldBy(c) THEN MutexFree
           ELSE g_sockets_list_mutex
    /\ pc' = [pc EXCEPT ![c] = "close"]
    /\ UNCHANGED <<session, g_server_running, mainpc, sock, closes,
                   client_sockfd, current, registeredBy, shutdownCalls>>

\* lines 343-347: close, free, pthread_exit
RegClose(c) ==
    /\ ProcessRuns
    /\ pc[c] = "close"
    /\ sock' = [sock EXCEPT ![c] = "closed"]
    /\ closes' = [closes EXCEPT ![c] = @ + 1]
    /\ pc' = [pc EXCEPT ![c] = "done"]
    /\ UNCHANGED <<session, g_server_running, mainpc, g_active_sockets, reg>>

\* lines 247-251: the listener is closed and main takes the mutex
RegWalkLock ==
    /\ mainpc = "shutdown"
    /\ g_sockets_list_mutex = MutexFree
    /\ g_sockets_list_mutex' = MutexHeldBy(MAIN)
    /\ current' = g_active_sockets
    /\ mainpc' = "walk"
    /\ UNCHANGED <<session, g_server_running, g_active_sockets, pc, sock,
                   closes, client_sockfd, registeredBy, shutdownCalls>>

\* lines 252-255: shutdown(current->sockfd, SHUT_RDWR) on the next node
RegWalkStep ==
    /\ mainpc = "walk"
    /\ current # <<>>
    /\ LET sockfd == Head(current)
           owner == registeredBy[sockfd]
       IN  /\ shutdownCalls' = Append(shutdownCalls,
                  [sockfd |-> sockfd,
                   open |-> sockfd \in OpenFds,
                   owned |-> /\ client_sockfd[owner] = sockfd
                             /\ sock[owner] \in {"open", "shut"}])
           /\ sock' = [c \in Clients |->
                        IF client_sockfd[c] = sockfd /\ sock[c] = "open"
                        THEN "shut" ELSE sock[c]]
    /\ current' = Tail(current)
    /\ UNCHANGED <<session, g_server_running, mainpc, g_active_sockets, pc,
                   closes, g_sockets_list_mutex, client_sockfd, registeredBy>>

\* lines 258-265: the nodes are freed and the mutex released
RegWalkEnd ==
    /\ mainpc = "walk"
    /\ current = <<>>
    /\ g_active_sockets' = <<>>
    /\ g_sockets_list_mutex' = MutexFree
    /\ mainpc' = "destroy"
    /\ UNCHANGED <<session, g_server_running, pc, sock, closes, client_sockfd,
                   current, registeredBy, shutdownCalls>>

\* line 268: pthread_mutex_destroy
RegDestroy ==
    /\ mainpc = "destroy"
    /\ g_sockets_list_mutex' = MutexDestroyed
    /\ mainpc' = "destroyed"
    /\ UNCHANGED <<session, g_server_running, g_active_sockets, pc, sock,
                   closes, client_sockfd, current, registeredBy, shutdownCalls>>

\* line 269: main returns and the process ends
RegExit ==
    /\ mainpc = "destroyed"
    /\ mainpc' = "exited"
    /\ UNCHANGED <<session, g_server_running, g_active_sockets, pc, sock,
                   closes, reg>>

InitRegistry ==
    /\ load = "registry"
    /\ NoIo
    /\ NoScript
    /\ InitState

NextRegistry ==
    \/ \E c \in Clients :
          \/ RegAccept(c)
          \/ RegAdd(c)
          \/ RegCreate(c)
          \/ RegCreateFail(c)
          \/ SessionEnds(c)
          \/ RegLock(c)
          \/ RegRemove(c)
          \/ RegClose(c)
    \/ SignalInAccept
    \/ SignalElsewhere
    \/ RegWalkLock
    \/ RegWalkStep
    \/ RegWalkEnd
    \/ RegDestroy
    \/ RegExit

SpecRegistry == InitRegistry /\ [][NextRegistry]_vars

\* One client whose LIST commands meet the failures the environment may
\* answer opendir, readdir and readlink with.
InitList ==
    /\ load = "list"
    /\ NoIo
    /\ NoScript
    /\ InitState

NextList ==
    \/ Next
    \/ ListOpenFail(1)
    \/ ListReadFail(1)
    \/ ListItemReadlinkFail(1)

SpecList == InitList /\ [][NextList]_vars

\* ------------------------------------------------------------------------
\* client.c: a client that runs a script file ("@a.txt" typed at its prompt)
\* over its connection, which is connection 1
\* ------------------------------------------------------------------------

\* interactive_mode, lines 277-291: the command begins with '@'; the file
\* named after it is opened and process_commands_from_file is called
ClientOpenScript ==
    /\ clientpc = "prompt"
    /\ pc[1] # "free"
    /\ openFiles' = openFiles + 1
    /\ clientpc' = "read"
    /\ UNCHANGED <<load, io, listEv, reg, script, scriptPos, wire, server>>

\* faulty variant: a line of the file that begins with '@' makes the client
\* run the named file inside the running one
ClientReadLineNested ==
    /\ clientpc = "read"
    /\ scriptPos < Len(script)
    /\ Head(script[scriptPos + 1]) = "@"
    /\ openFiles < 3
    /\ openFiles' = openFiles + 1
    /\ scriptPos' = 0
    /\ UNCHANGED <<load, io, listEv, reg, clientpc, script, wire, server>>

\* process_commands_from_file, lines 188-211: fgets returns the next line of
\* the file, or NULL at its end; an empty line is skipped; any other line is
\* sent as it is, followed by "\n"
ClientReadLine ==
    /\ clientpc = "read"
    /\ IF scriptPos = Len(script)
       THEN /\ clientpc' = "close"
            /\ UNCHANGED <<scriptPos, wire>>
       ELSE LET line_buffer == StripEol(script[scriptPos + 1])
            IN  /\ scriptPos' = scriptPos + 1
                /\ IF Len(line_buffer) = 0
                   THEN UNCHANGED <<clientpc, wire>>
                   ELSE /\ wire' = Append(wire, line_buffer \o NL)
                        /\ clientpc' =
                               IF Sscanf(line_buffer).command = CMD_QUIT
                               THEN "bye" ELSE "wait"
    /\ UNCHANGED <<load, io, listEv, reg, script, openFiles, server>>

\* lines 198-201: send_all fails on the line (the server has closed the
\* connection); the loop is left
ClientSendFail ==
    /\ clientpc = "read"
    /\ scriptPos < Len(script)
    /\ Len(StripEol(script[scriptPos + 1])) > 0
    /\ sock[1] = "closed"
    /\ scriptPos' = scriptPos + 1
    /\ clientpc' = "close"
    /\ UNCHANGED <<load, io, listEv, reg, script, openFiles, wire, server>>

\* lines 215-232: recv_line returns -2, no more of the reply arrives within
\* the receive timeout; the next line of the file is read
ClientTimeout ==
    /\ clientpc = "wait"
    /\ clientpc' = "read"
    /\ UNCHANGED <<load, io, listEv, reg, script, scriptPos, openFiles, wire, server>>

\* lines 224-230: recv_line returns 0 or -1, the server has closed the
\* connection; the loop is left
ClientServerGone ==
    /\ clientpc = "wait"
    /\ sock[1] = "closed"
    /\ clientpc' = "close"
    /\ UNCHANGED <<load, io, listEv, reg, script, scriptPos, openFiles, wire, server>>

\* lines 205-210: after a QUIT one line of reply is awaited and the loop is
\* left
ClientAfterQuit ==
    /\ clientpc = "bye"
    /\ clientpc' = "close"
    /\ UNCHANGED <<load, io, listEv, reg, script, scriptPos, openFiles, wire, server>>

\* interactive_mode, lines 291-296: process_commands_from_file has returned
\* and the file is closed
ClientCloseScript ==
    /\ clientpc = "close"
    /\ openFiles' = openFiles - 1
    /\ clientpc' = "end"
    /\ UNCHANGED <<load, io, listEv, reg, script, scriptPos, wire, server>>

InitScript ==
    /\ load = "script"
    /\ NoIo
    /\ clientpc = "prompt"
    /\ script \in Scripts
    /\ scriptPos = 0
    /\ openFiles = 0
    /\ wire = <<>>
    /\ InitState

NextScript ==
    \/ Next
    \/ ClientOpenScript
    \/ ClientReadLine
    \/ ClientSendFail
    \/ ClientTimeout
    \/ ClientServerGone
    \/ ClientAfterQuit
    \/ ClientCloseScript

SpecScript == InitScript /\ [][NextScript]_vars

\* ------------------------------------------------------------------------
\* recv_line and send_all on their own: one call, with what recv or send
\* returns each time it is called
\* ------------------------------------------------------------------------

Seqs(S, n) == UNION { [1 .. k -> S] : k \in 0 .. n }

\* recv_line is called with a buffer of max_len bytes, as its callers do
\* (server.c line 288, client.c lines 206, 215: MAX_BUFFER_SIZE)
RecvCalls ==
    { [fn |-> "recv_line", events |-> e, max_len |-> n] :
          e \in Seqs(RecvEvents, MaxEvents), n \in 2 .. MaxLineBuf }

\* send_all is called with a string and its length (server.c lines 283,
\* 304, 324, 707)
SendBuffer == <<"w", "x", "y", "z">>

SendCalls ==
    { [fn |-> "send_all", buffer |-> Take(SendBuffer, n), length |-> n,
       events |-> e] :
          n \in 0 .. MaxSendLen, e \in Seqs(SendEvents, MaxEvents) }

CallRecvLine ==
    /\ call.fn = "recv_line"
    /\ result = NoResult
    /\ result' = recv_line(call.events, call.max_len)
    /\ UNCHANGED <<load, call, client, server>>

CallSendAll ==
    /\ call.fn = "send_all"
    /\ result = NoResult
    /\ result' = send_all(call.buffer, call.length, call.events)
    /\ UNCHANGED <<load, call, client, server>>

InitIo ==
    /\ load = "io"
    /\ call \in RecvCalls \cup SendCalls
    /\ result = NoResult
    /\ NoScript
    /\ InitState

NextIo == CallRecvLine \/ CallSendAll

SpecIo == InitIo /\ [][NextIo]_vars

\* ------------------------------------------------------------------------
\* The handler's reads of a stream of bytes (server.c line 288): the client
\* has sent whole lines and keeps the connection open; recv returns one byte
\* per call and waits when none is left
\* ------------------------------------------------------------------------

Rep(ch, n) == [i \in 1 .. n |-> ch]

\* recv_line, lines 149-171, on a stream of bytes without errors: the bytes
\* it takes, or 0 - 1 while it waits in recv for a byte that has not come
RecvLineFromStream(stream, max_len) ==
    LET window == Min(Len(stream), max_len - 1)
        newlines == {k \in 1 .. window : stream[k] = "\n"}
    IN  IF newlines # {} THEN Least(newlines)
        ELSE IF window = max_len - 1 THEN window
        ELSE 0 - 1

\* the lines a client sends: "ECHO", a run of spaces (which sscanf skips,
\* so that neither command[] nor cmd_arg[] is overrun), and possibly the
\* word "QUIT" at the end of the same line
PadLens == {1, 2, MAX_BUFFER_SIZE - 7, MAX_BUFFER_SIZE - 6, MAX_BUFFER_SIZE - 5,
            MAX_BUFFER_SIZE - 4, MAX_BUFFER_SIZE + 1}
StreamLines ==
    { CMD_ECHO \o Rep(" ", n) \o w \o NL : n \in PadLens, w \in {<<>>, CMD_QUIT} }

\* the lines of one run, at most two
StreamCalls ==
    { [fn |-> "stream", stream |-> l, sent |-> 1] : l \in StreamLines }
    \cup { [fn |-> "stream", stream |-> l1 \o l2, sent |-> 2] :
               l1 \in StreamLines, l2 \in {CMD_INFO \o NL, CMD_QUIT \o NL} }

\* lines 288-297: recv_line returns what it collected and the handler
\* splits it into a command and an argument
RecvAndDispatch ==
    /\ call.fn = "stream"
    /\ LET nbytes == RecvLineFromStream(call.stream, MAX_BUFFER_SIZE)
           buffer_read == Take(call.stream, nbytes)
       IN  /\ nbytes > 0
           /\ \A i \in 1 .. Len(result.dispatched) :
                  result.dispatched[i].command # CMD_QUIT
           /\ call' = [call EXCEPT !.stream = Drop(@, nbytes)]
           /\ result' =
                  [returned |-> TRUE,
                   dispatched |-> Append(result.dispatched,
                       [nbytes |-> nbytes,
                        newline |-> buffer_read[nbytes] = "\n",
                        command |-> Sscanf(StripEol(buffer_read)).command])]
    /\ UNCHANGED <<load, client, server>>

InitStream ==
    /\ load = "stream"
    /\ call \in StreamCalls
    /\ result = [returned |-> FALSE, dispatched |-> <<>>]
    /\ NoScript
    /\ InitState

NextStream == RecvAndDispatch

SpecStream == InitStream /\ [][NextStream]_vars

\* ------------------------------------------------------------------------
\* The split of a line into command and argument on its own (server.c line
\* 297), for lines as long as recv_line can deliver
\* ------------------------------------------------------------------------

\* the lengths of the command token and of the argument of the lines split
TokenLens == {1, 4, MAX_CMD_LEN - 2, MAX_CMD_LEN - 1, MAX_CMD_LEN,
              MAX_CMD_LEN + 1, MAX_BUFFER_SIZE - 1}
ArgLens == {0, 1, 3, MAX_ARGS_LEN - 2, MAX_ARGS_LEN - 1, MAX_ARGS_LEN,
            MAX_ARGS_LEN + 1, MAX_BUFFER_SIZE - 3}

\* a line with a command token of n bytes and an argument of m bytes
SplitLine(n, m) ==
    Rep("a", n) \o (IF m = 0 THEN <<>> ELSE SP \o Rep("b", m))

\* recv_line(client_sockfd, buffer, MAX_BUFFER_SIZE) delivers at most
\* MAX_BUFFER_SIZE - 1 bytes (line 288)
SplitCalls ==
    { [fn |-> "sscanf", buffer |-> SplitLine(nm[1], nm[2])] :
          nm \in { x \in TokenLens \X ArgLens :
                       Len(SplitLine(x[1], x[2])) <= MAX_BUFFER_SIZE - 1 } }

CallSscanf ==
    /\ call.fn = "sscanf"
    /\ result = NoResult
    /\ result' = [returned |-> TRUE, written |-> SscanfWrites(call.buffer)]
    /\ UNCHANGED <<load, call, client, server>>

InitSplit ==
    /\ load = "split"
    /\ call \in SplitCalls
    /\ result = NoResult
    /\ NoScript
    /\ InitState

NextSplit == CallSscanf

SpecSplit == InitSplit /\ [][NextSplit]_vars

\* ------------------------------------------------------------------------
\* The two jail tests on their own: handle_cd's and get_relative_path's,
\* applied to the same pair of canonical absolute paths
\* ------------------------------------------------------------------------

\* canonical absolute paths of at most MaxDepth components
PathNames == {n_j, n_j2, n_s, n_o}
CanonicalPaths == { Join(comps) : comps \in Seqs(PathNames, MaxDepth) }

JailCalls ==
    { [fn |-> "jail", root |-> r, candidate |-> p] :
          r \in CanonicalPaths, p \in CanonicalPaths }

\* handle_cd lines 480-484 and handle_list lines 690-691 on (root, candidate)
CallJailTests ==
    /\ call.fn = "jail"
    /\ result = NoResult
    /\ result' = [returned |-> TRUE,
                  cd |-> CdContained(call.candidate, call.root),
                  list |-> GetRelativePath(call.candidate, call.root,
                                           MAX_PATH_LEN) # NULL]
    /\ UNCHANGED <<load, call, client, server>>

InitJail ==
    /\ load = "jail"
    /\ call \in JailCalls
    /\ result = NoResult
    /\ NoScript
    /\ InitState

NextJail == CallJailTests

SpecJail == InitJail /\ [][NextJail]_vars

\* ------------------------------------------------------------------------
\* Properties
\* ------------------------------------------------------------------------

StartsWith(s, prefix) == Len(prefix) <= Len(s) /\ SubSeq(s, 1, Len(prefix)) = prefix

\* the jail predicate of the specification
IsContained(root_path, candidate) ==
    candidate = root_path \/ StartsWith(candidate, root_path \o SLASH)

\* the command and the argument of the line connection c is handling
Cmd(c) == Sscanf(buffer[c]).command
Arg(c) == Sscanf(buffer[c]).cmd_arg

\* connection c is handling a line, or has handled one and not yet asked
\* for the next
Handling(c) == cwdBefore[c] # NoData

\* the canonical path the argument of the CD being handled names, or NULL
CdTarget(c) ==
    IF Cmd(c) = CMD_CD /\ Arg(c) # <<>>
    THEN Realpath(TargetPathTrial(root[c], cwdBefore[c], Arg(c)))
    ELSE NULL

\* the line being handled is a CD whose target is a directory outside root
EscapingCd(c) ==
    /\ Handling(c)
    /\ CdTarget(c) # NULL
    /\ IsDirectory(CdTarget(c))
    /\ ~IsContained(root[c], CdTarget(c))

IsErrorLine(line) == StartsWith(line, RESP_ERROR_PREFIX) /\ line[Len(line)] = "\n"

\* C1: the working directory of every session is its root or lies below it
C1_JailInvariant ==
    \A c \in Clients : cwd[c] # NoData => IsContained(root[c], cwd[c])

\* a CD that would leave the jail has been handled in a directory below root
C1_Witness ==
    \E c \in Clients :
        /\ pc[c] = "loop"
        /\ EscapingCd(c)
        /\ cwdBefore[c] # root[c]
        /\ IsContained(root[c], cwd[c])

\* C2: a session starts in the root; a step of one session leaves the
\* working directory and the replies of every other session as they are; the
\* working directory and the response a line produces are those its own
\* session's root and working directory give
C2_Isolation ==
    [][\A c \in Clients :
          /\ (pc[c] = "free" /\ pc'[c] = "welcome")
                => (cwd'[c] = server_root_global /\ root'[c] = server_root_global)
          /\ \A d \in Clients \ {c} :
                (pc'[d] # pc[d]) => /\ cwd'[c] = cwd[c]
                                    /\ root'[c] = root[c]
                                    /\ response'[c] = response[c]
                                    /\ replies'[c] = replies[c]
          /\ (pc[c] = "recv" /\ buffer'[c] # buffer[c])
                => LET r == Dispatch(root[c], cwd[c], buffer'[c])
                   IN  cwd'[c] = r.cwd /\ response'[c] = r.response
      ]_vars

\* a session has just changed directory while another one is elsewhere
C2_Witness ==
    \E c, d \in Clients :
        /\ c # d
        /\ cwd[c] # NoData
        /\ pc[d] = "loop" /\ Cmd(d) = CMD_CD
        /\ cwd[d] # cwdBefore[d]
        /\ cwd[d] # cwd[c]

\* C3: a CD whose target is a directory outside root leaves the working
\* directory alone and is answered with an error line
C3_EscapeRejectedWithError ==
    \A c \in Clients :
        EscapingCd(c) => /\ cwd[c] = cwdBefore[c]
                         /\ IsErrorLine(response[c])

\* C4: when the handler is back at the top of its loop after a line with a
\* command other than LIST, it has sent exactly one reply
C4_OneReply ==
    \A c \in Clients :
        (pc[c] = "loop" /\ Cmd(c) # <<>> /\ Cmd(c) # CMD_LIST)
            => Len(replies[c]) = 1

\* C5: CD / leaves the session in its root and is answered "/"
C5_CdSlash ==
    \A c \in Clients :
        (Handling(c) /\ Cmd(c) = CMD_CD /\ Arg(c) = SLASH)
            => /\ cwd[c] = root[c]
               /\ response[c] = SLASH \o NL
               /\ (pc[c] = "loop" => replies[c] = <<SLASH \o NL>>)

\* CD / has been answered in a session that was below its root
C5_Witness ==
    \E c \in Clients :
        /\ pc[c] = "loop" /\ Cmd(c) = CMD_CD /\ Arg(c) = SLASH
        /\ Handling(c) /\ cwdBefore[c] # root[c]
        /\ cwd[c] = root[c]
        /\ replies[c] = <<SLASH \o NL>>

\* C6: CD without an argument leaves the working directory alone and is
\* answered with an error line
C6_CdNoArgIsError ==
    \A c \in Clients :
        (Handling(c) /\ Cmd(c) = CMD_CD /\ Arg(c) = <<>>)
            => /\ cwd[c] = cwdBefore[c]
               /\ IsErrorLine(response[c])

\* C7: after a successful CD from the root into a real child directory, the
\* line CD .. leaves the session in its root and is answered "/"
C7_RoundTrip ==
    \A c \in Clients :
        (childCd[c] = "back" /\ Handling(c))
            => /\ cwd[c] = root[c]
               /\ response[c] = SLASH \o NL
               /\ (pc[c] = "loop" => replies[c] = <<SLASH \o NL>>)

\* the second reply of a round trip has been sent
C7_Witness ==
    \E c \in Clients :
        /\ childCd[c] = "back"
        /\ pc[c] = "loop"
        /\ cwdBefore[c] = root[c] \o SLASH \o n_s
        /\ cwd[c] = root[c]
        /\ replies[c] = <<SLASH \o NL>>

\* C8: the root of a session never changes, and its working directory
\* changes only in the handling of a CD that is answered with the new
\* directory
C8_Frame ==
    [][\A c \in Clients :
          /\ root[c] # NoData => root'[c] \in {root[c], NoData}
          /\ (cwd[c] # NoData /\ cwd'[c] # NoData /\ cwd'[c] # cwd[c])
                => /\ pc[c] = "recv"
                   /\ Sscanf(buffer'[c]).command = CMD_CD
                   /\ pc'[c] = "send"
                   /\ response'[c] # <<>>
                   /\ ~IsErrorLine(response'[c])
      ]_vars

\* a failed CD and an ECHO have been handled below the root
C8_Witness ==
    \E c, d \in Clients :
        /\ pc[c] = "loop" /\ Cmd(c) = CMD_CD /\ Arg(c) # <<>>
        /\ response[c] = <<>>
        /\ cwd[c] # root[c] /\ cwd[c] = cwdBefore[c]
        /\ pc[d] = "loop" /\ Cmd(d) = CMD_ECHO
        /\ cwd[d] # root[d] /\ cwd[d] = cwdBefore[d]

\* C9: a QUIT is answered with the one line BYE and the handler goes on to
\* its cleanup, where the socket is untracked and closed; it never returns
\* to the top of its loop
C9_Quit ==
    \A c \in Clients :
        Cmd(c) = CMD_QUIT
            => /\ pc[c] \in {"bye", "cleanup", "done"}
               /\ response[c] = RESP_BYE \o NL
               /\ pc[c] = "bye" => replies[c] = <<>>
               /\ pc[c] # "bye" => replies[c] = <<RESP_BYE \o NL>>
               /\ pc[c] = "done" =>
                      /\ sock[c] = "closed"
                      /\ \A i \in 1 .. Len(g_active_sockets) : g_active_sockets[i] # c

\* a session has ended on a QUIT that was answered
C9_Witness ==
    \E c \in Clients :
        /\ Cmd(c) = CMD_QUIT
        /\ pc[c] = "done"
        /\ replies[c] = <<RESP_BYE \o NL>>
        /\ sock[c] = "closed"

IsPrefix(s, t) == Len(s) <= Len(t) /\ SubSeq(t, 1, Len(s)) = s

\* the lines of a listing of current_wd_abs from entry number i on
RECURSIVE ListingFrom(_, _, _)
ListingFrom(server_root_abs, current_wd_abs, names) ==
    IF names = <<>> THEN <<>>
    ELSE LET line == IF Head(names) \in {DOT, DOTDOT} THEN <<>>
                     ELSE ListItemLine(server_root_abs, current_wd_abs,
                                       Head(names), TRUE)
             rest == ListingFrom(server_root_abs, current_wd_abs, Tail(names))
         IN  IF line = <<>> THEN rest ELSE <<line>> \o rest

\* the whole reply to the line connection c is handling
WholeReply(c) ==
    IF Cmd(c) = CMD_LIST
    THEN ListingFrom(root[c], cwd[c], ListEntries(c))
    ELSE IF response[c] = <<>> THEN <<>> ELSE <<response[c]>>

\* C10: what has been sent for the line being handled is always a prefix of
\* its reply, and it is the whole reply, every line of a listing included,
\* when the handler is back at the top of its loop to read the next line;
\* nothing is sent while the handler waits for a line
C10_ReplyBeforeNextLine ==
    \A c \in Clients :
        /\ Handling(c) => IsPrefix(replies[c], WholeReply(c))
        /\ (pc[c] = "loop" /\ Handling(c)) => replies[c] = WholeReply(c)
        /\ pc[c] = "recv" => replies[c] = <<>>

\* the same, for the lines whose sends all succeed
C10_ReplyBeforeNextLineNoSendError ==
    \A c \in Clients :
        /\ Handling(c) => IsPrefix(replies[c], WholeReply(c))
        /\ (pc[c] = "loop" /\ Handling(c) /\ ~sendErr[c])
              => replies[c] = WholeReply(c)
        /\ pc[c] = "recv" => replies[c] = <<>>

\* ------------------------------------------------------------------------
\* Shutdown and the end of sessions
\* ------------------------------------------------------------------------

\* the session of connection c has ended: its thread has exited, or the
\* process has
Ended(c) == sock[c] # "none" /\ (pc[c] = "done" \/ mainpc = "exited")

\* C11: whatever ends a session, the end of the process included, its
\* socket has been closed exactly once and its session state released
C11_NoSocketLeak ==
    \A c \in Clients :
        Ended(c) => /\ closes[c] = 1
                    /\ sock[c] = "closed"
                    /\ root[c] = NoData /\ cwd[c] = NoData

\* the same for the sessions that end while main is in its accept loop
C11_NoSocketLeakBeforeShutdown ==
    \A c \in Clients :
        (Ended(c) /\ mainpc = "accept")
            => /\ closes[c] = 1
               /\ sock[c] = "closed"
               /\ root[c] = NoData /\ cwd[c] = NoData

\* C12: once the shutdown signal has been handled no connection is accepted
C12_NoAcceptAfterSignal ==
    [][g_server_running = 0 =>
          \A c \in Clients : pc[c] = "free" => pc'[c] = "free"]_vars

\* C13: main returns only when every handler thread has exited
C13_MainWaitsForUnits ==
    mainpc = "exited" => \A c \in Clients : pc[c] \in {"free", "done"}

\* ------------------------------------------------------------------------
\* Replies
\* ------------------------------------------------------------------------

\* line is one line: it ends with its only "\n"
IsOneLine(line) ==
    /\ Len(line) > 0
    /\ line[Len(line)] = "\n"
    /\ \A i \in 1 .. Len(line) - 1 : line[i] # "\n"

Contains(s, sub) ==
    \E i \in 1 .. Len(s) - Len(sub) + 1 : SubSeq(s, i, i + Len(sub) - 1) = sub

KnownCommands == {CMD_ECHO, CMD_QUIT, CMD_INFO, CMD_CD, CMD_LIST}

\* C14: when the handler is back at the top of its loop after an ECHO, an
\* INFO or a CD, it has sent exactly one reply, which is one line ended by
\* "\n"
C14_OneTerminatedLine ==
    \A c \in Clients :
        (pc[c] = "loop" /\ Handling(c) /\ Cmd(c) \in {CMD_ECHO, CMD_INFO, CMD_CD})
            => /\ Len(replies[c]) = 1
               /\ IsOneLine(replies[c][1])

\* the line connection c is handling has a first token that is no command
UnknownToken(c) ==
    Handling(c) /\ Cmd(c) # <<>> /\ Cmd(c) \notin KnownCommands

\* C15: a line whose first token is no command is answered with one line
\* that starts with "ERROR: " and names the token; the handler sends it and
\* is back at the top of its loop, and leaves the loop only if the send
\* failed
C15_UnknownCommand ==
    \A c \in Clients :
        UnknownToken(c)
            => /\ StartsWith(response[c], RESP_ERROR_PREFIX)
               /\ IsOneLine(response[c])
               /\ Contains(response[c], Cmd(c))
               /\ cwd[c] = cwdBefore[c]
               /\ pc[c] \in {"send", "loop", "cleanup"}
               /\ pc[c] = "send" => replies[c] = <<>>
               /\ pc[c] # "send" => replies[c] = <<response[c]>>
               /\ pc[c] = "cleanup" => sendErr[c]

\* an unknown command has been answered and the handler reads on
C15_Witness ==
    \E c \in Clients :
        /\ UnknownToken(c)
        /\ pc[c] = "loop"
        /\ replies[c] =
               <<RESP_ERROR_PREFIX \o UNKNOWN_COMMAND \o <<"F", "O", "O">> \o NL>>

\* the line connection c is handling begins, after leading whitespace, with
\* '@'
AtLine(c) ==
    /\ Handling(c)
    /\ SkipSpace(buffer[c]) # <<>>
    /\ Head(SkipSpace(buffer[c])) = "@"

NestedLineAnswered ==
    /\ clientpc = "end"
    /\ AtLine(1)
    /\ pc[1] = "loop"
    /\ Len(replies[1]) = 1

RECURSIVE LeadingBytes(_)
LeadingBytes(s) ==
    IF s = <<>> \/ Head(s) \notin RecvBytes THEN 0
    ELSE 1 + LeadingBytes(Tail(s))

\* what recv returned to the call made, interruptions left out
Delivered == SelectSeq(call.events, LAMBDA e : e # "EINTR")

\* the bytes that arrived before anything else did
BytesFirst == Take(Delivered, LeadingBytes(Delivered))

\* those bytes are less than a line and less than the buffer holds
Partial ==
    /\ \A i \in 1 .. Len(BytesFirst) : BytesFirst[i] # "\n"
    /\ Len(BytesFirst) < call.max_len - 1

\* what ended the reading of a partial line: "EOF", "EAGAIN", "ECONNRESET",
\* or "none"
Stopper ==
    IF Partial /\ Len(BytesFirst) < Len(Delivered)
    THEN Delivered[Len(BytesFirst) + 1]
    ELSE "none"

RecvReturned == call.fn = "recv_line" /\ result.returned

\* C18: recv_line returns 0 exactly when the peer closed before any byte of
\* the line, -2 exactly when the timeout came before any byte, and the
\* partial line with its length when either came after some bytes
C18_RecvLineResults ==
    RecvReturned
        => /\ result.ret = 0 <=> (Stopper = "EOF" /\ BytesFirst = <<>>)
           /\ result.ret = 0 - 2 <=> (Stopper = "EAGAIN" /\ BytesFirst = <<>>)
           /\ (Stopper \in {"EOF", "EAGAIN"} /\ BytesFirst # <<>>)
                 => /\ result.ret = Len(BytesFirst)
                    /\ result.ret > 0
                    /\ result.buffer = BytesFirst

\* an interrupted read of one byte that then timed out returned that byte
C18_Witness ==
    /\ RecvReturned
    /\ call.events = <<"a", "EINTR", "EAGAIN">>
    /\ result.ret = 1
    /\ result.buffer = <<"a">>

\* C19: a socket error after some bytes of a line gives the number of
\* bytes read so far, not the error result
C19_ErrorAfterBytes ==
    (RecvReturned /\ Stopper = "ECONNRESET" /\ BytesFirst # <<>>)
        => result.ret = Len(BytesFirst)

\* the results of send before the i-th, interruptions left out
SendsDelivered == SelectSeq(call.events, LAMBDA e : e.errno # "EINTR")

RECURSIVE SumRet(_)
SumRet(s) == IF s = <<>> THEN 0 ELSE Head(s).ret + SumRet(Tail(s))

\* a send failed, or returned 0, while bytes were still to be sent
SendFailed ==
    \E i \in 1 .. Len(SendsDelivered) :
        /\ SendsDelivered[i].ret <= 0
        /\ \A j \in 1 .. i - 1 : SendsDelivered[j].ret > 0
        /\ SumRet(Take(SendsDelivered, i - 1)) < call.length

SendReturned == call.fn = "send_all" /\ result.returned

\* C20: send_all returns 0 only when the socket has taken every byte of the
\* buffer, in order, and -1 only when a send failed with an error other
\* than an interruption, or returned 0, with bytes still to be sent
C20_SendAll ==
    SendReturned
        => /\ result.ret \in {0, 0 - 1}
           /\ IsPrefix(result.handed, call.buffer)
           /\ result.ret = 0 => result.handed = call.buffer
           /\ result.ret = 0 - 1 <=> SendFailed

\* three bytes were sent in two parts with an interruption between them
C20_Witness ==
    /\ SendReturned
    /\ call.length = 3
    /\ call.events = << [ret |-> 1, errno |-> "none"],
                        [ret |-> 0 - 1, errno |-> "EINTR"],
                        [ret |-> 2, errno |-> "none"] >>
    /\ result.ret = 0
    /\ result.handed = Take(SendBuffer, 3)


\* ------------------------------------------------------------------------
\* LIST: the lines for symbolic links, and the failures of the listing
\* ------------------------------------------------------------------------

\* the line handle_list handed to send_all last
LastReply(c) ==
    IF replies[c] = <<>> THEN <<>> ELSE replies[c][Len(replies[c])]

\* handle_list has just handled the entry of a symlink, and readlink on it
\* succeeded (ok) or failed (~ok)
LinkHandled(c, ok) ==
    /\ pc[c] \in {"list", "loop"}
    /\ listEv[c].kind = "entry"
    /\ listEv[c].readlink_ok = ok
    /\ Lstat(ItemPathAbs(cwd[c], listEv[c].name)).kind = "link"

BROKEN_LINK == <<"[", "b", "r", "o", "k", "e", "n", " ", "l", "i", "n", "k", "]">>

\* C21: the line for a symlink entry whose readlink fails is the entry's
\* name, then " -> ", then "[broken link]".
C21_BrokenLinkLine ==
    \A c \in Clients :
        LinkHandled(c, FALSE) =>
            LastReply(c) = listEv[c].name \o ARROW_PLAIN \o BROKEN_LINK \o NL


\* the text of the symlink handle_list has just handled, the path of its
\* direct target, and the canonical path the link resolves to (NULL if none)
RawTarget(c) == Lstat(ItemPathAbs(cwd[c], listEv[c].name)).target
ImmediateTarget(c) ==
    IF RawTarget(c)[1] = "/" THEN RawTarget(c)
    ELSE cwd[c] \o SLASH \o RawTarget(c)
UltimateTarget(c) == Realpath(ItemPathAbs(cwd[c], listEv[c].name))

\* the ultimate target lies inside the jail
TargetInside(c) ==
    /\ UltimateTarget(c) # NULL
    /\ IsContained(root[c], UltimateTarget(c))

\* a path inside the jail with the root prefix stripped; the root itself is
\* "/"
RelativeTarget(c) ==
    IF UltimateTarget(c) = root[c] THEN SLASH
    ELSE Drop(UltimateTarget(c), Len(root[c]))

\* C22: a symlink whose ultimate target canonicalizes inside the jail is
\* listed as "name --> relative_target" when its direct target is not a
\* symlink and as "name -->> relative_target" when it is, relative_target
\* being the ultimate target with the root prefix stripped.
C22_ResolvedLinkLine ==
    \A c \in Clients :
        LinkHandled(c, TRUE) /\ TargetInside(c) =>
            LastReply(c) =
                listEv[c].name
                \o (IF Lstat(ImmediateTarget(c)).kind = "link"
                    THEN ARROW_CHAIN ELSE ARROW_ONE)
                \o RelativeTarget(c) \o NL

\* the chained link m (m -> k -> s) has been listed with the chain arrow
C22_Witness ==
    /\ LinkHandled(1, TRUE)
    /\ listEv[1].name = n_m
    /\ Lstat(ImmediateTarget(1)).kind = "link"
    /\ LastReply(1) = n_m \o ARROW_CHAIN \o SLASH \o n_s \o NL

\* the one-hop link k (k -> s) has been listed with the one-hop arrow
C22_WitnessOneHop ==
    /\ LinkHandled(1, TRUE)
    /\ listEv[1].name = n_k
    /\ LastReply(1) = n_k \o ARROW_ONE \o SLASH \o n_s \o NL


\* the line being handled is a CD whose argument names a symlink of the
\* working directory that does not resolve inside the jail
CdIntoExternalLink(c) ==
    /\ Handling(c)
    /\ Cmd(c) = CMD_CD
    /\ Arg(c) \in {n_k, n_m, n_l, n_d, n_a, n_r}
    /\ Lstat(ItemPathAbs(cwdBefore[c], Arg(c))).kind = "link"
    /\ LET resolved == Realpath(ItemPathAbs(cwdBefore[c], Arg(c)))
       IN  resolved = NULL \/ ~IsContained(root[c], resolved)

\* C23: a symlink whose ultimate target cannot be canonicalized or lies
\* outside the root is listed as "name -> raw_target [unresolved/external]",
\* and a CD into such a link leaves the working directory where it was.
C23_ExternalLinkListed ==
    \A c \in Clients :
        /\ LinkHandled(c, TRUE) /\ ~TargetInside(c) =>
               LastReply(c) = listEv[c].name \o ARROW_PLAIN \o RawTarget(c)
                              \o SUFFIX_EXTERNAL
        /\ CdIntoExternalLink(c) => cwd[c] = cwdBefore[c]

\* the link l (l -> ../o, outside the root) has been listed
C23_Witness ==
    /\ LinkHandled(1, TRUE)
    /\ listEv[1].name = n_l
    /\ ~TargetInside(1)
    /\ LastReply(1) = n_l \o ARROW_PLAIN \o DOTDOT \o SLASH \o n_o \o SUFFIX_EXTERNAL

\* a CD into the link l has been handled
C23_WitnessCd == CdIntoExternalLink(1) /\ Arg(1) = n_l /\ pc[1] = "loop"

\* the dangling link d (d -> x) has been listed
C23_WitnessDangling ==
    /\ LinkHandled(1, TRUE)
    /\ listEv[1].name = n_d
    /\ UltimateTarget(1) = NULL
    /\ LastReply(1) = n_d \o ARROW_PLAIN \o n_x \o SUFFIX_EXTERNAL


\* an error line that ends with the text of an operating-system error
IsOsErrorLine(line, errors) ==
    /\ IsErrorLine(line)
    /\ \E e \in errors :
          /\ Len(line) > Len(e) + 1
          /\ SubSeq(line, Len(line) - Len(e), Len(line) - 1) = e

\* C24: when the working directory cannot be opened the reply to LIST is
\* exactly one error line and no entry; when reading it fails the reply ends
\* with one error line after the entries read so far; in both cases the
\* handler is back at the top of its loop with its socket not closed.
C24_ListFailures ==
    \A c \in Clients :
        /\ listEv[c].kind = "open_failed" =>
               /\ Len(replies[c]) = 1
               /\ IsOsErrorLine(replies[c][1], OpendirErrors)
               /\ pc[c] = "loop"
               /\ closes[c] = 0
        /\ listEv[c].kind = "read_failed" =>
               /\ Len(replies[c]) >= 1
               /\ IsOsErrorLine(LastReply(c), ReaddirErrors)
               /\ \A i \in 1 .. Len(replies[c]) - 1 :
                      ~IsErrorLine(replies[c][i])
               /\ pc[c] = "loop"
               /\ closes[c] = 0


\* readdir has failed after entries were listed, and the handler is back at
\* the top of its loop
C24_Witness ==
    /\ listEv[1].kind = "read_failed"
    /\ Len(replies[1]) > 1
    /\ pc[1] = "loop"

\* opendir has failed, and the handler is back at the top of its loop
C24_WitnessOpen ==
    /\ listEv[1].kind = "open_failed"
    /\ Len(replies[1]) = 1
    /\ pc[1] = "loop"


\* the absolute paths of the server's filesystem a reply could give away:
\* the root, the working directory, and the directories beside the root
ServerAbsolutePaths(c) ==
    {root[c], cwd[c], SLASH \o n_j, SLASH \o n_j2, SLASH \o n_o}

\* the line has the path as a word of its own or as the start of one
ContainsPath(line, path) ==
    \E i \in 1 .. Len(line) - Len(path) + 1 :
        /\ SubSeq(line, i, i + Len(path) - 1) = path
        /\ i = 1 \/ line[i - 1] = " "

\* C25: no line handed to send_all, error lines and symlink lines included,
\* contains the server's absolute root path or another server-absolute path.
C25_NoAbsolutePathInReply ==
    \A c \in Clients :
        root[c] # NoData =>
            \A i \in 1 .. Len(replies[c]) :
                \A path \in ServerAbsolutePaths(c) :
                    ~ContainsPath(replies[c][i], path)

\* the same for the lines of symlinks alone: a link whose text is an absolute
\* path outside the root is listed with that text
C25_NoAbsolutePathInLinkLine ==
    \A c \in Clients :
        LinkHandled(c, TRUE) =>
            \A path \in ServerAbsolutePaths(c) : ~ContainsPath(LastReply(c), path)


\* ------------------------------------------------------------------------
\* Transport failures
\* ------------------------------------------------------------------------

\* C26: once send_all has failed on any part of the reply to the line being
\* handled, a line of a listing included, the handler neither is back at the
\* top of its loop nor reads a further line: it is on its way to close its
\* socket.
C26_SendFailureEndsSession ==
    \A c \in Clients :
        (Handling(c) /\ sendErr[c]) => pc[c] \notin {"loop", "recv", "list"}


\* ------------------------------------------------------------------------
\* Command parsing
\* ------------------------------------------------------------------------

\* the first position from i on where the line has (or has not) a
\* whitespace character, or the position after its end
FirstSpaceFrom(line, i) ==
    LET found == {k \in i .. Len(line) : IsSpace(line[k])}
    IN  IF found = {} THEN Len(line) + 1
        ELSE CHOOSE k \in found : \A m \in found : k <= m
FirstNonSpaceFrom(line, i) ==
    LET found == {k \in i .. Len(line) : ~IsSpace(line[k])}
    IN  IF found = {} THEN Len(line) + 1
        ELSE CHOOSE k \in found : \A m \in found : k <= m

\* the command token of a line, and the remainder of the line after the
\* token and the whitespace that separates the two
CommandToken(line) ==
    SubSeq(line, FirstNonSpaceFrom(line, 1),
           FirstSpaceFrom(line, FirstNonSpaceFrom(line, 1)) - 1)
Remainder(line) ==
    SubSeq(line,
           FirstNonSpaceFrom(line, FirstSpaceFrom(line, FirstNonSpaceFrom(line, 1))),
           Len(line))

\* C27: the reply to ECHO is its argument followed by "\n", the argument
\* being the remainder of the line after the command token and the
\* whitespace that ends the token: not split, its inner and trailing spaces
\* kept, possibly empty.
C27_EchoReply ==
    \A c \in Clients :
        (Handling(c) /\ CommandToken(buffer[c]) = CMD_ECHO) =>
            /\ pc[c] = "send" => response[c] = Remainder(buffer[c]) \o NL
            /\ pc[c] = "loop" => replies[c] = <<Remainder(buffer[c]) \o NL>>

\* an ECHO whose argument has inner and trailing spaces has been answered
C27_Witness ==
    /\ Handling(1)
    /\ pc[1] = "loop"
    /\ buffer[1] = CMD_ECHO \o SP \o SP \o <<"h", "i", " ", " ", "y", "o", " ">>
    /\ replies[1] = << <<"h", "i", " ", " ", "y", "o", " ", "\n">> >>

\* an ECHO without an argument has been answered with an empty line
C27_WitnessEmpty ==
    /\ Handling(1)
    /\ pc[1] = "loop"
    /\ buffer[1] = CMD_ECHO
    /\ replies[1] = <<NL>>


\* ------------------------------------------------------------------------
\* The jail predicate
\* ------------------------------------------------------------------------

\* C28 as stated: on every pair of canonical absolute paths the test of CD
\* and the test of LIST's symlink display give the same answer, and they
\* accept exactly when the candidate is the root or starts with the root
\* followed by "/".
C28_SingleJailPredicate ==
    (call.fn = "jail" /\ result.returned) =>
        /\ result.cd = result.list
        /\ result.cd = IsContained(call.root, call.candidate)

\* C28 as amended: the two tests give the same answer, and they accept
\* exactly when the candidate is the root, or starts with the root followed
\* by "/", or the root is "/" (which contains every canonical path).
C28_JailPredicatesAgree ==
    (call.fn = "jail" /\ result.returned) =>
        /\ result.cd = result.list
        /\ result.cd = (\/ IsContained(call.root, call.candidate)
                        \/ call.root = SLASH)

\* the sibling /j2 of the root /j has been rejected by both tests
C28_Witness ==
    /\ call.fn = "jail"
    /\ result.returned
    /\ call.root = SLASH \o n_j
    /\ call.candidate = SLASH \o n_j2
    /\ ~result.cd
    /\ ~result.list


\* C29: splitting a line of at most MAX_BUFFER_SIZE - 1 bytes stores at most
\* MAX_CMD_LEN bytes, terminator included, in the command buffer and at most
\* MAX_ARGS_LEN bytes in the argument buffer.
C29_SplitWithinCapacity ==
    (call.fn = "sscanf" /\ result.returned) =>
        /\ Len(call.buffer) <= MAX_BUFFER_SIZE - 1
        /\ result.written.command <= MAX_CMD_LEN
        /\ result.written.cmd_arg <= MAX_ARGS_LEN

\* the same for the argument buffer alone
C29_ArgumentWithinCapacity ==
    (call.fn = "sscanf" /\ result.returned) =>
        result.written.cmd_arg <= MAX_ARGS_LEN


\* ------------------------------------------------------------------------
\* recv_line: what it stores and what it returns
\* ------------------------------------------------------------------------

\* what recv_line has stored is at most max_len - 1 bytes, is terminated,
\* holds the bytes that arrived in their order, and has a "\n" nowhere but at
\* its end, where it has one whenever a "\n" arrived within those bytes
RecvStored ==
    /\ Len(result.buffer) <= call.max_len - 1
    /\ result.terminated
    /\ result.ret >= 0 => result.buffer = Take(BytesFirst, Len(result.buffer))
    /\ \A i \in 1 .. Len(result.buffer) - 1 : result.buffer[i] # "\n"
    /\ (result.ret >= 0
        /\ \E i \in 1 .. Min(Len(BytesFirst), call.max_len - 1) :
               BytesFirst[i] = "\n")
          => result.buffer[Len(result.buffer)] = "\n"

\* C30: recv_line stores at most max_len - 1 data bytes, always terminates
\* the buffer, stops at the first "\n", which it stores, and returns a length
\* between 0 and max_len - 1 that is the number of bytes it consumed from the
\* socket.  (A call that fails or times out before it has consumed any byte
\* returns -1 or -2; the length is required of every other call.)
C30_RecvLineLength ==
    RecvReturned =>
        /\ RecvStored
        /\ (result.consumed > 0 \/ result.ret >= 0) =>
               /\ result.ret \in 0 .. call.max_len - 1
               /\ result.ret = result.consumed

\* the same without the length of a call that failed after it had consumed
\* bytes
C30_RecvLineStored ==
    RecvReturned =>
        /\ RecvStored
        /\ result.ret >= 0 =>
               /\ result.ret \in 0 .. call.max_len - 1
               /\ result.ret = result.consumed
               /\ result.ret = Len(result.buffer)


\* ------------------------------------------------------------------------
\* Lines and commands
\* ------------------------------------------------------------------------

\* on bytes alone, the reads of a stream and recv_line's loop take the same
\* bytes
RecvLineFromStreamAgrees ==
    (RecvReturned /\ \A i \in 1 .. Len(call.events) : call.events[i] \in RecvBytes)
        => result.ret = RecvLineFromStream(call.events, call.max_len)

\* C31: each "\n"-terminated line a client sends is dispatched as one
\* command, whatever its length: the handler never has dispatched more
\* commands (reads in which sscanf found a command token) than the client
\* has sent lines.
C31_OneLineOneCommand ==
    call.fn = "stream" =>
        Len(SelectSeq(result.dispatched, LAMBDA d : d.command # <<>>)) <= call.sent


\* ------------------------------------------------------------------------
\* client.c: the directory shown in the prompt. One command is sent, from
\* the prompt or from a script file, to a server whose root is /j, and the
\* lines of the reply are received until no more arrive
\* ------------------------------------------------------------------------

PromptRoot == SLASH \o n_j

\* the working directories of the session at the server, and the labels
\* the client may show when the command is sent
PromptCwds == {PromptRoot, PromptRoot \o SLASH \o n_s}
PromptLabels == {<<>>, n_s}

\* the commands, as fgets returns them and with the end of line cut off
PromptLines ==
    { CMD_CD \o SP \o n_s,
      CMD_CD \o SP \o DOTDOT,
      CMD_CD \o SP \o SLASH,
      CMD_CD \o SP \o n_x,
      CMD_CD \o SP \o n_f,
      CMD_CD,
      SP \o CMD_CD \o SP \o n_s,
      <<"\t">> \o CMD_CD \o SP \o SLASH,
      CMD_CD \o n_x \o SP \o n_s,
      CMD_ECHO \o SP \o n_s,
      CMD_ECHO \o SP \o SLASH,
      CMD_LIST,
      CMD_INFO,
      CMD_QUIT,
      SP }

\* the bytes of a reply cut into the lines recv_line returns
RECURSIVE LinesOf(_)
LinesOf(bytes) ==
    IF bytes = <<>> THEN <<>>
    ELSE LET n == RecvLineFromStream(bytes, MAX_BUFFER_SIZE)
         IN  IF n < 0 THEN <<bytes>>
             ELSE <<Take(bytes, n)>> \o LinesOf(Drop(bytes, n))

\* server.c, handle_list: the lines of a listing of the working directory
ListReply(server_root_abs, current_wd_abs) ==
    LET names == DirNames(SelectSeq(Split(current_wd_abs), LAMBDA x : x # <<>>))
        line(i) == IF names[i] \in {DOT, DOTDOT} THEN <<>>
                   ELSE ListItemLine(server_root_abs, current_wd_abs, names[i], TRUE)
    IN  SelectSeq([i \in 1 .. Len(names) |-> line(i)], LAMBDA l : l # <<>>)

\* server.c, lines 288-336: the lines the handler sends for a command
ServerReply(current_wd_abs, line) ==
    LET d == Dispatch(PromptRoot, current_wd_abs, line \o NL)
    IN  IF d.pc = "list" THEN ListReply(PromptRoot, current_wd_abs)
        ELSE LinesOf(d.response)

\* update_prompt_dir, lines 162-176: the label after a reply line
UpdatePromptDir(server_response, current_prompt_dir, prompt_dir_size) ==
    LET clean_response == StripEol(Take(server_response, MAX_PATH_LEN - 1))
    IN  IF prompt_dir_size = 0 THEN current_prompt_dir
        ELSE IF Len(clean_response) = 0 \/ clean_response = SLASH THEN <<>>
        ELSE Take(clean_response, prompt_dir_size - 1)

\* lines 203-204 and 305-306: sscanf(buffer, "%s", temp_cmd_check); when the
\* line holds no word nothing is stored and temp_cmd_check, which is not
\* initialised, holds what the stack held: the word of an earlier command
\* or anything else
TempCmdCheck(line) ==
    IF Len(Sscanf(line).command) > 0 THEN {Sscanf(line).command}
    ELSE {CMD_CD, CMD_QUIT, <<>>}

\* line 212 (script file): strncmp(line_buffer, CMD_CD, strlen(CMD_CD)) == 0;
\* line 314 (prompt): strcmp(temp_cmd_check, CMD_CD) == 0
IsCdCommand(mode, line, temp_cmd_check) ==
    IF mode = "file" THEN Take(line, Len(CMD_CD)) = CMD_CD
    ELSE temp_cmd_check = CMD_CD

NoLine == <<>>

PromptCalls ==
    { [fn |-> "prompt", mode |-> m, line |-> l, cwd |-> w, label |-> b] :
          m \in {"interactive", "file"}, l \in PromptLines,
          w \in PromptCwds, b \in PromptLabels }

\* lines 198-213 and 300-315: the command is sent and the kind of command
\* is worked out
PromptSend ==
    /\ call.fn = "prompt"
    /\ result.pc = "prompt"
    /\ \E temp_cmd_check \in TempCmdCheck(call.line) :
           result' = [result EXCEPT
               !.pc = IF temp_cmd_check = CMD_QUIT THEN "bye" ELSE "wait",
               !.is_cd_command = IsCdCommand(call.mode, call.line, temp_cmd_check),
               !.first_line_after_cd = TRUE,
               !.pending = ServerReply(call.cwd, call.line)]
    /\ UNCHANGED <<load, call, client, server>>

\* lines 215-223 and 317-325: recv_line returns a line of the reply
PromptRecvLine ==
    /\ call.fn = "prompt"
    /\ result.pc = "wait"
    /\ result.pending # <<>>
    /\ LET response_buffer == Head(result.pending)
           update == /\ result.is_cd_command
                     /\ result.first_line_after_cd
                     /\ Take(response_buffer, Len(RESP_ERROR_PREFIX)) # RESP_ERROR_PREFIX
       IN  result' = [result EXCEPT
               !.pending = Tail(@),
               !.first = IF @ = NoLine THEN response_buffer ELSE @,
               !.first_line_after_cd =
                   IF result.is_cd_command THEN FALSE ELSE @,
               !.current_prompt_dir =
                   IF update
                   THEN UpdatePromptDir(response_buffer, @, MAX_PATH_LEN)
                   ELSE @]
    /\ UNCHANGED <<load, call, client, server>>

\* lines 215, 231 and 317, 334: recv_line returns -2 when nothing more arrives
\* within the receive timeout; the next command is read
PromptRecvTimeout ==
    /\ call.fn = "prompt"
    /\ result.pc = "wait"
    /\ result.pending = <<>>
    /\ result' = [result EXCEPT !.pc = "done"]
    /\ UNCHANGED <<load, call, client, server>>

\* lines 224-230 and 327-333: recv_line returns 0 or -1, the connection is
\* lost with what had not arrived; the loop of commands is left
PromptRecvFail ==
    /\ call.fn = "prompt"
    /\ result.pc = "wait"
    /\ result' = [result EXCEPT !.pc = "done", !.pending = <<>>]
    /\ UNCHANGED <<load, call, client, server>>

\* lines 205-210 and 307-312: after QUIT one line is awaited and printed
PromptBye ==
    /\ call.fn = "prompt"
    /\ result.pc = "bye"
    /\ result' = [result EXCEPT
           !.pc = "done",
           !.pending = IF @ = <<>> THEN @ ELSE Tail(@),
           !.first = IF result.pending = <<>> THEN @ ELSE Head(result.pending)]
    /\ UNCHANGED <<load, call, client, server>>

InitPrompt ==
    /\ load = "prompt"
    /\ call \in PromptCalls
    /\ result = [returned |-> FALSE, pc |-> "prompt", is_cd_command |-> FALSE,
                 first_line_after_cd |-> FALSE, pending |-> <<>>,
                 first |-> NoLine, current_prompt_dir |-> call.label]
    /\ NoScript
    /\ InitState

NextPrompt ==
    \/ PromptSend
    \/ PromptRecvLine
    \/ PromptRecvTimeout
    \/ PromptRecvFail
    \/ PromptBye

SpecPrompt == InitPrompt /\ [][NextPrompt]_vars

\* ------------------------------------------------------------------------
\* The tracked list, the shutdown walk and the mutex
\* ------------------------------------------------------------------------

\* main is in its accept loop: the shutdown sequence has not started
BeforeShutdown == mainpc \in {"accept", "add", "create"}

\* the connections main has added to the list and whose cleanup has not
\* entered remove_client_socket
Registered == {c \in Clients : pc[c] \in {"registered", "run", "cleanup"}}

\* the descriptors in the list
Tracked == {g_active_sockets[i] : i \in 1 .. Len(g_active_sockets)}

\* C32: before the shutdown sequence, whenever the mutex is free the list
\* holds exactly one node for each connection that has been accepted and
\* added and whose session has not begun to remove it, and no descriptor
\* twice.
C32_RegistryInvariant ==
    (BeforeShutdown /\ g_sockets_list_mutex = MutexFree) =>
        /\ Tracked = {client_sockfd[c] : c \in Registered}
        /\ Len(g_active_sockets) = Cardinality(Registered)
        /\ \A i, j \in 1 .. Len(g_active_sockets) :
               i # j => g_active_sockets[i] # g_active_sockets[j]
        /\ \A c \in Registered : sock[c] = "open"

\* the second connection is tracked under the descriptor the first one had
\* and has closed
C32_Witness ==
    /\ BeforeShutdown
    /\ g_sockets_list_mutex = MutexFree
    /\ pc[1] = "done"
    /\ closes[1] = 1
    /\ pc[2] = "run"
    /\ client_sockfd[2] = client_sockfd[1]
    /\ g_active_sockets = <<client_sockfd[2]>>

\* the same with a connection counted from the return of accept to the label
\* cleanup: it fails between accept and add_client_socket and between the
\* label and remove_client_socket
C32_RegistryInvariantToTheLine ==
    (BeforeShutdown /\ g_sockets_list_mutex = MutexFree) =>
        Tracked = {client_sockfd[c] :
                      c \in {d \in Clients : pc[d] \in {"accepted", "registered", "run"}}}

\* C33: every descriptor main calls shutdown on in its walk is open and is
\* the descriptor of the session it was added for.
C33_WalkTouchesLiveDescriptors ==
    \A i \in 1 .. Len(shutdownCalls) :
        /\ shutdownCalls[i].open
        /\ shutdownCalls[i].owned

\* main has called shutdown on a descriptor while the thread of another
\* session is between the end of its session and its close
C33_Witness ==
    /\ mainpc = "walk"
    /\ shutdownCalls # <<>>
    /\ \E c \in Clients : pc[c] \in {"cleanup", "close"}
    /\ \E c \in Clients : pc[c] = "done" /\ client_sockfd[c] = shutdownCalls[1].sockfd

\* C34: no thread is inside remove_client_socket, between its lock and its
\* unlock of the mutex, once main has destroyed the mutex.
C34_NoMutexUseAfterDestroy ==
    \A c \in Clients :
        pc[c] = "remove" => g_sockets_list_mutex # MutexDestroyed


\* ------------------------------------------------------------------------
\* The directory in the client's prompt
\* ------------------------------------------------------------------------

\* a line without its end of line
WithoutTerminator(line) ==
    IF line # <<>> /\ line[Len(line)] = "\n" THEN SubSeq(line, 1, Len(line) - 1)
    ELSE line

\* the command sent is CD: its first word, which is what the server acts
\* on, is "CD"
SentIsCd == Sscanf(call.line).command = CMD_CD

\* the label the prompt must show once the first line of the reply is in
LabelAfterReply ==
    IF SentIsCd /\ ~StartsWith(result.first, RESP_ERROR_PREFIX)
    THEN IF WithoutTerminator(result.first) = SLASH THEN <<>>
         ELSE WithoutTerminator(result.first)
    ELSE call.label

\* C35: the label of the prompt changes only when the command sent is CD
\* and the first line of the reply does not begin with "ERROR: "; it is then
\* that line without its end of line, or empty when the line is "/"; after
\* any other command, and after a CD that gets an error or no reply, the
\* label is what it was.
C35_PromptLabel ==
    call.fn = "prompt" =>
        result.current_prompt_dir =
            IF result.first = NoLine THEN call.label ELSE LabelAfterReply

\* the same for commands typed at the prompt only
C35_PromptLabelInteractive ==
    (call.fn = "prompt" /\ call.mode = "interactive") =>
        result.current_prompt_dir =
            IF result.first = NoLine THEN call.label ELSE LabelAfterReply

====
